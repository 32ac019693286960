----------------------------- MODULE ScriptProofs -----------------------------
(***************************************************************************)
(* Proofs about what scripts hold and change. The messages of a WebSocket  *)
(* are kept in order from the peer to the script, whatever the capacity of *)
(* the channels and however scripts and tasks take turns. An               *)
(* XMLHttpRequest whose handlers call it shows no answer of another        *)
(* request. The two copies of what timers are set agree. Of a document     *)
(* with any number of nodes: it stays a tree, it looks as it was last      *)
(* rendered when no node of it is dirty, and its listeners that fire once  *)
(* are gone when no event is dispatched any more. A form of any shape      *)
(* submits its own controls that are on. The objects of fetch and of       *)
(* FormData stay what they were made as. A rectangle on a canvas is        *)
(* painted the same as a path and at once.                                 *)
(***************************************************************************)
EXTENDS DomEvents, EventLoop, Xhr, WebSocket, Forms, ThreadObjects, Canvas, SequenceLemmas,
        FiniteSetTheorems, TLAPS

-----------------------------------------------------------------------------
(* WebSocket.                                                              *)

\* What is on the way: controls and numbered messages.
Signals == Controls \cup {Message(n) : n \in Nat}

Before(A, B) == \A a \in A, b \in B : a[2] < b[2]

\* The part of Messages that one event is.
Share(e) == {e} \ Controls

Sent(n) == {Message(i) : i \in 1 .. n}

\* A message is not a control, and is known by its number.
LEMMA MessageFacts ==
    /\ \A n \in Nat : Message(n) \in Signals /\ Message(n) \notin Controls /\ Message(n)[2] = n
    /\ Controls \subseteq Signals
BY DEF Signals, Controls, Message, Opened, Failed, Closed

\* What putting an event at the end changes.
LEMMA PutOne ==
    ASSUME NEW s \in Seq(Signals), NEW e \in Signals
    PROVE  /\ Append(s, e) \in Seq(Signals)
           /\ Messages(Append(s, e)) = Messages(s) \cup Share(e)
           /\ InSequence(s) /\ Before(Messages(s), Share(e)) => InSequence(Append(s, e))
<1> DEFINE t == Append(s, e)
<1>1. /\ t \in Seq(Signals) /\ Len(s) \in Nat /\ Len(t) = Len(s) + 1
      /\ DOMAIN s = 1 .. Len(s) /\ DOMAIN t = 1 .. Len(t)
      /\ t[Len(s) + 1] = e /\ \A i \in 1 .. Len(s) : t[i] = s[i]
  OBVIOUS
<1> HIDE DEF t
<1>2. ToSet(t) = ToSet(s) \cup {e}
  <2>1. \A i \in DOMAIN t : i \in DOMAIN s \/ i = Len(s) + 1
    BY <1>1
  <2>2. DOMAIN s \subseteq DOMAIN t /\ Len(s) + 1 \in DOMAIN t
    BY <1>1
  <2> QED BY <1>1, <2>1, <2>2 DEF ToSet
<1>3. Messages(t) = Messages(s) \cup Share(e)
  BY <1>2 DEF Messages, Share
<1>4. ASSUME InSequence(s), Before(Messages(s), Share(e)) PROVE InSequence(t)
  <2> SUFFICES ASSUME NEW i \in DOMAIN t, NEW j \in DOMAIN t, i < j,
                      t[i] \notin Controls, t[j] \notin Controls
               PROVE  t[i][2] < t[j][2]
    BY DEF InSequence
  <2>1. i \in DOMAIN s /\ t[i] = s[i]
    BY <1>1
  <2>2. CASE j \in DOMAIN s
    BY <1>1, <1>4, <2>1, <2>2 DEF InSequence
  <2>3. CASE j = Len(s) + 1
    <3>1. s[i] \in Messages(s) /\ t[j] \in Share(e)
      BY <1>1, <2>1, <2>3 DEF Messages, ToSet, Share
    <3> QED BY <1>4, <2>1, <3>1 DEF Before
  <2> QED BY <1>1, <2>2, <2>3
<1> QED BY <1>1, <1>3, <1>4 DEF t

\* What taking the first event changes.
LEMMA TakeOne ==
    ASSUME NEW s \in Seq(Signals), s # <<>>
    PROVE  /\ Head(s) \in Signals /\ Tail(s) \in Seq(Signals)
           /\ Messages(s) = Share(Head(s)) \cup Messages(Tail(s))
           /\ InSequence(s) => InSequence(Tail(s)) /\ Before(Share(Head(s)), Messages(Tail(s)))
<1> DEFINE t == Tail(s)
<1>1. /\ Head(s) \in Signals /\ t \in Seq(Signals) /\ Len(s) \in Nat \ {0} /\ Len(t) = Len(s) - 1
      /\ DOMAIN s = 1 .. Len(s) /\ DOMAIN t = 1 .. Len(t)
      /\ Head(s) = s[1] /\ \A i \in 1 .. Len(t) : t[i] = s[i + 1]
  OBVIOUS
<1> HIDE DEF t
<1>2. ToSet(s) = {Head(s)} \cup ToSet(t)
  <2>1. \A i \in DOMAIN t : i + 1 \in DOMAIN s /\ t[i] = s[i + 1]
    BY <1>1
  <2>2. \A i \in DOMAIN s : i = 1 \/ (i - 1 \in DOMAIN t /\ t[i - 1] = s[i])
    BY <1>1
  <2>3. 1 \in DOMAIN s
    BY <1>1
  <2> QED BY <1>1, <2>1, <2>2, <2>3 DEF ToSet
<1>3. Messages(s) = Share(Head(s)) \cup Messages(t)
  BY <1>2 DEF Messages, Share
<1>4. ASSUME InSequence(s) PROVE InSequence(t)
  <2> SUFFICES ASSUME NEW i \in DOMAIN t, NEW j \in DOMAIN t, i < j,
                      t[i] \notin Controls, t[j] \notin Controls
               PROVE  t[i][2] < t[j][2]
    BY DEF InSequence
  <2>1. i + 1 \in DOMAIN s /\ j + 1 \in DOMAIN s /\ i + 1 < j + 1
        /\ t[i] = s[i + 1] /\ t[j] = s[j + 1]
    BY <1>1
  <2> QED BY <1>4, <2>1 DEF InSequence
<1>5. ASSUME InSequence(s) PROVE Before(Share(Head(s)), Messages(t))
  <2> SUFFICES ASSUME Head(s) \notin Controls, NEW i \in DOMAIN t, t[i] \notin Controls
               PROVE  Head(s)[2] < t[i][2]
    BY DEF Before, Share, Messages, ToSet
  <2>1. 1 \in DOMAIN s /\ i + 1 \in DOMAIN s /\ 1 < i + 1 /\ t[i] = s[i + 1] /\ Head(s) = s[1]
    BY <1>1
  <2> QED BY <1>5, <2>1 DEF InSequence
<1> QED BY <1>1, <1>3, <1>4, <1>5 DEF t

\* What joining two sequences does.
LEMMA Joined ==
    ASSUME NEW s \in Seq(Signals), NEW t \in Seq(Signals)
    PROVE  /\ s \o t \in Seq(Signals)
           /\ Messages(s \o t) = Messages(s) \cup Messages(t)
           /\ InSequence(s) /\ InSequence(t) /\ Before(Messages(s), Messages(t)) => InSequence(s \o t)
<1> DEFINE w == s \o t
<1>1. /\ w \in Seq(Signals) /\ Len(s) \in Nat /\ Len(t) \in Nat /\ Len(w) = Len(s) + Len(t)
      /\ DOMAIN s = 1 .. Len(s) /\ DOMAIN t = 1 .. Len(t) /\ DOMAIN w = 1 .. Len(w)
      /\ \A i \in 1 .. Len(s) : w[i] = s[i]
      /\ \A i \in (Len(s) + 1) .. Len(w) : w[i] = t[i - Len(s)]
  OBVIOUS
<1> HIDE DEF w
<1>2. \A i \in DOMAIN w : \/ i \in DOMAIN s /\ w[i] = s[i]
                          \/ i > Len(s) /\ i - Len(s) \in DOMAIN t /\ w[i] = t[i - Len(s)]
  BY <1>1
<1>3. ToSet(w) = ToSet(s) \cup ToSet(t)
  <2>1. \A i \in DOMAIN s : i \in DOMAIN w /\ w[i] = s[i]
    BY <1>1
  <2>2. \A i \in DOMAIN t : i + Len(s) \in DOMAIN w /\ w[i + Len(s)] = t[i]
    BY <1>1
  <2> QED BY <1>2, <2>1, <2>2 DEF ToSet
<1>4. Messages(w) = Messages(s) \cup Messages(t)
  BY <1>3 DEF Messages
<1>5. ASSUME InSequence(s), InSequence(t), Before(Messages(s), Messages(t)) PROVE InSequence(w)
  <2> SUFFICES ASSUME NEW i \in DOMAIN w, NEW j \in DOMAIN w, i < j,
                      w[i] \notin Controls, w[j] \notin Controls
               PROVE  w[i][2] < w[j][2]
    BY DEF InSequence
  <2>1. CASE i \in DOMAIN s /\ j \in DOMAIN s
    BY <1>1, <1>5, <2>1 DEF InSequence
  <2>2. CASE i \in DOMAIN s /\ j > Len(s)
    <3>1. w[i] \in Messages(s) /\ w[j] \in Messages(t)
      BY <1>1, <1>2, <2>2 DEF Messages, ToSet
    <3> QED BY <1>5, <3>1 DEF Before
  <2>3. CASE i > Len(s) /\ j > Len(s)
    <3>1. /\ i - Len(s) \in DOMAIN t /\ j - Len(s) \in DOMAIN t /\ i - Len(s) < j - Len(s)
          /\ w[i] = t[i - Len(s)] /\ w[j] = t[j - Len(s)]
      BY <1>1, <2>3
    <3> QED BY <1>5, <3>1 DEF InSequence
  <2> QED BY <1>1, <2>1, <2>2, <2>3
<1> QED BY <1>1, <1>4, <1>5 DEF w

\* The four places a message can be in, from the script back to the peer.
Way(r, b, e, u, n) ==
    /\ Messages(r) \cup Messages(b) \cup Messages(e) \cup Messages(u) = Sent(n)
    /\ InSequence(r) /\ InSequence(b) /\ InSequence(e) /\ InSequence(u)
    /\ Before(Messages(r), Messages(b)) /\ Before(Messages(r), Messages(e))
    /\ Before(Messages(r), Messages(u)) /\ Before(Messages(b), Messages(e))
    /\ Before(Messages(b), Messages(u)) /\ Before(Messages(e), Messages(u))

\* That the way is right is what MessagesKept says.
LEMMA WayIsKept ==
    ASSUME NEW r \in Seq(Signals), NEW b \in Seq(Signals), NEW e \in Seq(Signals),
           NEW u \in Seq(Signals), NEW n \in Nat, Way(r, b, e, u, n)
    PROVE  LET way == r \o b \o e \o u IN Messages(way) = Sent(n) /\ InSequence(way)
<1>1. /\ r \o b \in Seq(Signals) /\ InSequence(r \o b)
      /\ Messages(r \o b) = Messages(r) \cup Messages(b)
  BY Joined DEF Way
<1> DEFINE rb == r \o b
<1> HIDE DEF rb
<1>2. /\ rb \o e \in Seq(Signals) /\ InSequence(rb \o e)
      /\ Messages(rb \o e) = Messages(rb) \cup Messages(e)
  <2>1. Before(Messages(rb), Messages(e))
    BY <1>1 DEF Way, Before, rb
  <2> QED BY <1>1, <2>1, Joined DEF Way, rb
<1> DEFINE rbe == rb \o e
<1> HIDE DEF rbe
<1>3. InSequence(rbe \o u) /\ Messages(rbe \o u) = Messages(rbe) \cup Messages(u)
  <2>1. Before(Messages(rbe), Messages(u))
    BY <1>1, <1>2 DEF Way, Before, rb, rbe
  <2> QED BY <1>2, <2>1, Joined DEF Way, rbe
<1> QED BY <1>1, <1>2, <1>3 DEF Way, rb, rbe

\* An event of the connection comes behind the messages in the channel.
LEMMA WayTell ==
    ASSUME NEW r, NEW b, NEW e \in Seq(Signals), NEW u, NEW n,
           Way(r, b, e, u, n), NEW c \in Controls
    PROVE  Way(r, b, Append(e, c), u, n)
<1>1. c \in Signals /\ Share(c) = {}
  BY MessageFacts DEF Share
<1>2. Messages(Append(e, c)) = Messages(e) /\ InSequence(Append(e, c))
  BY <1>1, PutOne DEF Way, Before
<1> QED BY <1>2 DEF Way

\* The peer sends its next message.
LEMMA WaySend ==
    ASSUME NEW r, NEW b, NEW e, NEW u \in Seq(Signals), NEW n \in Nat,
           Way(r, b, e, u, n)
    PROVE  Way(r, b, e, Append(u, Message(n + 1)), n + 1)
<1> DEFINE m == Message(n + 1)
<1>1. m \in Signals /\ Share(m) = {m} /\ m[2] = n + 1
  BY MessageFacts DEF Share
<1>2. \A a \in Sent(n) : a[2] < n + 1
  BY MessageFacts DEF Sent
<1>3. Sent(n + 1) = Sent(n) \cup {m}
  <2>1. 1 .. n + 1 = (1 .. n) \cup {n + 1}
    OBVIOUS
  <2> QED BY <2>1 DEF Sent
<1> HIDE DEF m
<1>4. Before(Messages(r), Share(m)) /\ Before(Messages(b), Share(m))
      /\ Before(Messages(e), Share(m)) /\ Before(Messages(u), Share(m))
  BY <1>1, <1>2 DEF Way, Before
<1>5. Messages(Append(u, m)) = Messages(u) \cup Share(m) /\ InSequence(Append(u, m))
  BY <1>1, <1>4, PutOne DEF Way
<1>6. Way(r, b, e, Append(u, m), n + 1)
  BY <1>1, <1>3, <1>4, <1>5 DEF Way, Before
<1> QED BY <1>6 DEF m

\* The peer closes the connection.
LEMMA WayClose ==
    ASSUME NEW r, NEW b, NEW e, NEW u \in Seq(Signals), NEW n,
           Way(r, b, e, u, n), NEW c \in Controls
    PROVE  Way(r, b, e, Append(u, c), n)
<1>1. c \in Signals /\ Share(c) = {}
  BY MessageFacts DEF Share
<1>2. Messages(Append(u, c)) = Messages(u) /\ InSequence(Append(u, c))
  BY <1>1, PutOne DEF Way, Before
<1> QED BY <1>2 DEF Way

\* The reader moves one frame from the connection into the channel.
LEMMA WayRead ==
    ASSUME NEW r, NEW b, NEW e \in Seq(Signals), NEW u \in Seq(Signals), NEW n,
           Way(r, b, e, u, n), u # <<>>
    PROVE  Way(r, b, Append(e, Head(u)), Tail(u), n)
<1> DEFINE h == Head(u)
           t == Tail(u)
<1>1. /\ h \in Signals /\ Messages(u) = Share(h) \cup Messages(t)
      /\ InSequence(t) /\ Before(Share(h), Messages(t))
  BY TakeOne DEF Way
<1> HIDE DEF h, t
<1>2. Before(Messages(e), Share(h))
  BY <1>1 DEF Way, Before
<1>3. Messages(Append(e, h)) = Messages(e) \cup Share(h) /\ InSequence(Append(e, h))
  BY <1>1, <1>2, PutOne DEF Way
<1>4. Way(r, b, Append(e, h), t, n)
  BY <1>1, <1>3 DEF Way, Before
<1> QED BY <1>4 DEF h, t

\* A poll takes the channel as its batch.
LEMMA WayPoll ==
    ASSUME NEW r, NEW e, NEW u, NEW n, Way(r, <<>>, e, u, n)
    PROVE  Way(r, e, <<>>, u, n)
<1>1. Messages(<<>>) = {} /\ InSequence(<<>>)
  BY DEF Messages, InSequence, ToSet
<1> QED BY <1>1 DEF Way, Before

\* One event of the batch is dispatched, and reaches the script if it is a message.
LEMMA WayDispatch ==
    ASSUME NEW r \in Seq(Signals), NEW b \in Seq(Signals), NEW e, NEW u, NEW n,
           Way(r, b, e, u, n), b # <<>>
    PROVE  Way(IF Head(b) \in Controls THEN r ELSE Append(r, Head(b)), Tail(b), e, u, n)
<1> DEFINE h == Head(b)
           t == Tail(b)
<1>1. /\ h \in Signals /\ Messages(b) = Share(h) \cup Messages(t)
      /\ InSequence(t) /\ Before(Share(h), Messages(t))
  BY TakeOne DEF Way
<1> HIDE DEF h, t
<1>2. CASE h \in Controls
  <2>1. Messages(b) = Messages(t)
    BY <1>1, <1>2 DEF Share
  <2>2. Way(r, t, e, u, n)
    BY <1>1, <2>1 DEF Way
  <2> QED BY <1>2, <2>2 DEF h, t
<1>3. CASE h \notin Controls
  <2>1. Before(Messages(r), Share(h))
    BY <1>1 DEF Way, Before
  <2>2. Messages(Append(r, h)) = Messages(r) \cup Share(h) /\ InSequence(Append(r, h))
    BY <1>1, <2>1, PutOne DEF Way
  <2>3. Way(Append(r, h), t, e, u, n)
    BY <1>1, <2>2 DEF Way, Before
  <2> QED BY <1>3, <2>3 DEF h, t
<1> QED BY <1>2, <1>3

\* A batch is dispatched before the tasks run again, so that a poll, which sets
\* the batch, loses nothing of an earlier one.
SocketInv ==
    /\ received \in Seq(Signals) /\ batch \in Seq(Signals)
    /\ events \in Seq(Signals) /\ unread \in Seq(Signals) /\ sent \in Nat
    /\ thread = "idle" => batch = <<>>
    /\ known => Way(received, batch, events, unread, sent)

LEMMA InitSocket == SocketInit => SocketInv
<1> SUFFICES ASSUME SocketInit PROVE SocketInv
  OBVIOUS
<1>1. Messages(<<>>) = {} /\ InSequence(<<>>)
  BY DEF Messages, InSequence, ToSet
<1>2. Way(<<>>, <<>>, <<>>, <<>>, 0)
  BY <1>1 DEF Way, Before, Sent
<1> QED BY <1>2 DEF SocketInit, SocketInv

\* The script, the batch and what the peer has sent stay.
Still == UNCHANGED <<received, batch, unread, sent, known, thread>>

\* A task tells the engine of what became of the connection.
LEMMA TellSocket ==
    ASSUME SocketInv, NEW c \in Controls, Tell(c), Still
    PROVE  SocketInv'
<1>1. CASE known
  <2>1. events' = Append(events, c)
    BY <1>1 DEF Tell
  <2>2. c \in Signals
    BY MessageFacts
  <2>3. Way(received, batch, Append(events, c), unread, sent)
    BY <1>1, WayTell DEF SocketInv
  <2> QED BY <2>1, <2>2, <2>3 DEF SocketInv, Still
<1>2. CASE ~ known
  <2>1. events' = events
    BY <1>2 DEF Tell
  <2> QED BY <1>2, <2>1 DEF SocketInv, Still
<1> QED BY <1>1, <1>2

\* Nothing of the way changes.
LEMMA IdleSocket ==
    ASSUME SocketInv, UNCHANGED <<received, batch, events, unread, sent, known>>,
           thread' = "idle" => batch = <<>>
    PROVE  SocketInv'
BY DEF SocketInv

LEMMA PeerSocket == SocketInv /\ (PeerSends \/ PeerEnds) => SocketInv'
<1> SUFFICES ASSUME SocketInv, PeerSends \/ PeerEnds PROVE SocketInv'
  OBVIOUS
<1>1. UNCHANGED <<received, batch, events, known, thread>>
  BY DEF PeerSends, PeerEnds, pageVars
<1>2. CASE PeerSends
  <2>1. sent' = sent + 1 /\ unread' = Append(unread, Message(sent + 1))
    BY <1>2 DEF PeerSends
  <2>2. known => Way(received, batch, events, unread', sent')
    BY <2>1, WaySend DEF SocketInv
  <2>3. unread' \in Seq(Signals) /\ sent' \in Nat
    BY <2>1, MessageFacts DEF SocketInv
  <2> QED BY <1>1, <2>2, <2>3 DEF SocketInv
<1>3. CASE PeerEnds
  <2>1. sent' = sent /\ (unread' = unread \/ unread' = Append(unread, Closed))
    BY <1>3 DEF PeerEnds
  <2>2. Closed \in Controls
    BY DEF Controls
  <2>3. known => Way(received, batch, events, Append(unread, Closed), sent)
    BY <2>2, WayClose DEF SocketInv
  <2>4. Append(unread, Closed) \in Seq(Signals)
    BY <2>2, MessageFacts DEF SocketInv
  <2> QED BY <1>1, <2>1, <2>3, <2>4 DEF SocketInv
<1> QED BY <1>2, <1>3

LEMMA ReadSocket == SocketInv /\ Read => SocketInv'
<1> SUFFICES ASSUME SocketInv, Read PROVE SocketInv'
  OBVIOUS
<1>1. /\ unread # <<>> /\ unread' = Tail(unread) /\ Tell(Head(unread))
      /\ UNCHANGED <<received, batch, sent, known, thread>>
  BY DEF Read, pageVars
<1>2. Head(unread) \in Signals /\ Tail(unread) \in Seq(Signals)
  BY <1>1, TakeOne DEF SocketInv
<1>3. events' \in Seq(Signals)
  BY <1>1, <1>2 DEF SocketInv, Tell
<1>4. known => Way(received, batch, events', unread', sent)
  BY <1>1, WayRead DEF SocketInv, Tell
<1> QED BY <1>1, <1>2, <1>3, <1>4 DEF SocketInv

\* The steps of the tasks.
LEMMA NetSocket == SocketInv /\ NetStep => SocketInv'
<1> SUFFICES ASSUME SocketInv, NetStep PROVE SocketInv'
  OBVIOUS
<1>1. Opened \in Controls /\ Failed \in Controls /\ Closed \in Controls
  BY DEF Controls
<1>2. CASE Connect
  <2>1. Tell(Opened) /\ Still
    BY <1>2 DEF Connect, Still, pageVars
  <2> QED BY <1>1, <2>1, TellSocket
<1>3. CASE ConnectFails
  <2>1. Tell(Failed) /\ Still
    BY <1>3 DEF ConnectFails, Still, pageVars
  <2> QED BY <1>1, <2>1, TellSocket
<1>4. CASE Read
  BY <1>4, ReadSocket
<1>5. CASE ReaderEnds \/ Write \/ TaskStopsWaiting
  <2>1. UNCHANGED <<received, batch, events, unread, sent, known, thread>>
    BY <1>5 DEF ReaderEnds, Write, TaskStopsWaiting, pageVars
  <2> QED BY <2>1, IdleSocket DEF SocketInv
<1>6. CASE WriterFails
  <2>1. Tell(Failed) /\ Still
    BY <1>6 DEF WriterFails, Still, pageVars
  <2> QED BY <1>1, <2>1, TellSocket
<1>7. CASE TaskEnds
  <2>1. Tell(Closed) /\ Still
    BY <1>7 DEF TaskEnds, Still, pageVars
  <2> QED BY <1>1, <2>1, TellSocket
<1> QED BY <1>2, <1>3, <1>4, <1>5, <1>6, <1>7 DEF NetStep

\* The steps of the engine's thread.
LEMMA PollSocket == SocketInv /\ Poll => SocketInv'
<1> SUFFICES ASSUME SocketInv, Poll PROVE SocketInv'
  OBVIOUS
<1>1. /\ batch = <<>> /\ batch' = events /\ events' = <<>> /\ thread' = "script"
      /\ UNCHANGED <<received, unread, sent, known>>
  BY DEF Poll, SocketInv, netVars
<1>2. known => Way(received, events, <<>>, unread, sent)
  BY <1>1, WayPoll DEF SocketInv
<1> QED BY <1>1, <1>2 DEF SocketInv

LEMMA DispatchSocket == SocketInv /\ Dispatch => SocketInv'
<1> SUFFICES ASSUME SocketInv, Dispatch PROVE SocketInv'
  OBVIOUS
<1>1. /\ batch # <<>> /\ thread = "script" /\ thread' = thread
      /\ received' = IF Head(batch) \in Controls THEN received ELSE Append(received, Head(batch))
      /\ batch' = Tail(batch)
      /\ UNCHANGED <<events, unread, sent, known>>
  BY DEF Dispatch, netVars
<1>2. known => Way(received', batch', events, unread, sent)
  BY <1>1, WayDispatch DEF SocketInv
<1>3. Head(batch) \in Signals /\ Tail(batch) \in Seq(Signals)
  BY <1>1, TakeOne DEF SocketInv
<1>4. received' \in Seq(Signals)
  BY <1>1, <1>3 DEF SocketInv
<1> QED BY <1>1, <1>2, <1>3, <1>4 DEF SocketInv

LEMMA ReturnSocket == SocketInv /\ ScriptReturns => SocketInv'
<1> SUFFICES ASSUME SocketInv, ScriptReturns PROVE SocketInv'
  OBVIOUS
<1>1. /\ batch = <<>> /\ events' = (IF closing THEN <<>> ELSE events)
      /\ known' = (known /\ ~ closing)
      /\ UNCHANGED <<received, batch, unread, sent>>
  BY DEF ScriptReturns, netVars
<1>2. CASE closing
  BY <1>1, <1>2 DEF SocketInv
<1>3. CASE ~ closing
  BY <1>1, <1>3 DEF SocketInv
<1> QED BY <1>2, <1>3

LEMMA NextSocket == SocketInv /\ [SocketNext]_socketVars => SocketInv'
<1> SUFFICES ASSUME SocketInv, [SocketNext]_socketVars PROVE SocketInv'
  OBVIOUS
<1>1. CASE PeerSends \/ PeerEnds
  BY <1>1, PeerSocket
<1>2. CASE NetStep
  BY <1>2, NetSocket
<1>3. CASE ScriptRuns
  <2>1. UNCHANGED <<received, batch, events, unread, sent, known>> /\ thread' = "script"
    BY <1>3 DEF ScriptRuns, netVars, pageVars
  <2> QED BY <2>1, IdleSocket
<1>4. CASE Send \/ Close
  <2>1. \E c : Issue(c)
    BY <1>4 DEF Send, Close
  <2>2. UNCHANGED <<received, batch, events, unread, sent, known>> /\ thread' # "idle"
    BY <2>1 DEF Issue, netVars
  <2> QED BY <2>2, IdleSocket
<1>5. CASE Poll
  BY <1>5, PollSocket
<1>6. CASE Dispatch
  BY <1>6, DispatchSocket
<1>7. CASE ScriptReturns
  BY <1>7, ReturnSocket
<1>8. CASE UNCHANGED socketVars
  <2>1. UNCHANGED <<received, batch, events, unread, sent, known, thread>>
    BY <1>8 DEF socketVars, netVars, pageVars
  <2> QED BY <2>1, IdleSocket DEF SocketInv
<1> QED BY <1>1, <1>2, <1>3, <1>4, <1>5, <1>6, <1>7, <1>8 DEF SocketNext

\* Whatever the capacity of the channels, and however often the script and the
\* tasks take turns: while a socket is registered, each message of the peer is
\* on its way to the script or has reached it, once and in order.
THEOREM MessagesAreKept == SocketSpec => []MessagesKept
<1>1. SocketInv => MessagesKept
  <2> SUFFICES ASSUME SocketInv, known PROVE MessagesKept
    BY DEF MessagesKept
  <2> DEFINE way == received \o batch \o events \o unread
  <2>1. Messages(way) = Sent(sent) /\ InSequence(way)
    BY WayIsKept DEF SocketInv
  <2> QED BY <2>1 DEF MessagesKept, Sent
<1> QED BY <1>1, InitSocket, NextSocket, PTL DEF SocketSpec

-----------------------------------------------------------------------------
(* XMLHttpRequest.                                                         *)

Steps == {"request", "headers", "loading", "progress", "done", "load", "loadend",
          "failed", "error"}
Todo == Seq(Steps)

\* The sequences of steps a send takes are sequences of steps.
LEMMA TodoFacts ==
    /\ <<"request">> \in Todo
    /\ <<"headers", "loading", "progress", "done", "load", "loadend">> \in Todo
    /\ <<"failed", "error", "loadend">> \in Todo
<1>1. \A S : \A a, b, c \in S : <<a>> \in Seq(S) /\ <<a, b, c>> \in Seq(S)
  OBVIOUS
<1>2. \A S : \A s, t \in Seq(S) : s \o t \in Seq(S)
  OBVIOUS
<1>3. \A a, b, c, d, e, f : <<a, b, c, d, e, f>> = <<a, b, c>> \o <<d, e, f>>
  OBVIOUS
<1>4. {"request", "headers", "loading", "progress", "done", "load", "loadend", "failed", "error"}
        \subseteq Steps
  BY DEF Steps
<1>5. /\ <<"request">> \in Seq(Steps) /\ <<"failed", "error", "loadend">> \in Seq(Steps)
      /\ <<"headers", "loading", "progress">> \in Seq(Steps)
      /\ <<"done", "load", "loadend">> \in Seq(Steps)
  BY <1>1, <1>4
<1>6. <<"headers", "loading", "progress">> \o <<"done", "load", "loadend">> \in Seq(Steps)
  BY <1>2, <1>5
<1>7. <<"headers", "loading", "progress", "done", "load", "loadend">>
        = <<"headers", "loading", "progress">> \o <<"done", "load", "loadend">>
  BY <1>3
<1> QED BY <1>5, <1>6, <1>7 DEF Todo

\* What putting a member at the end of a sequence gives.
LEMMA PutLast ==
    ASSUME NEW S, NEW s \in Seq(S), NEW x \in S
    PROVE  /\ s \o <<x>> \in Seq(S) /\ Len(s) \in Nat
           /\ DOMAIN (s \o <<x>>) = 1 .. Len(s) + 1
           /\ (s \o <<x>>)[Len(s) + 1] = x
           /\ \A i \in 1 .. Len(s) : (s \o <<x>>)[i] = s[i]
OBVIOUS

Requests == [readyState : Nat, url : Urls \cup {NoUrl}, sent : BOOLEAN,
             headers : Nat, status : Nat, answered : Urls \cup {NoUrl}, body : Urls \cup {NoUrl}]

XhrTyped ==
    /\ xhr \in Requests
    /\ sends \in Seq([url : Urls \cup {NoUrl}, todo : Todo])

\* What is kept of an answer is of the url of the object, in every state of the
\* request and not only in those in which a script can read it; and every send
\* under way, of whatever depth, works on that url.
XhrInv ==
    /\ XhrTyped
    /\ ~ reopened => /\ {xhr.answered, xhr.body} \subseteq {xhr.url, NoUrl}
                     /\ \A i \in DOMAIN sends : sends[i].url = xhr.url

LEMMA InitXhr == XhrInit => XhrInv
<1> SUFFICES ASSUME XhrInit PROVE XhrInv
  OBVIOUS
<1>1. xhr \in Requests
  BY DEF XhrInit, Requests, UNSENT, DONE
<1>2. sends = <<>> /\ xhr.answered = NoUrl /\ xhr.body = NoUrl
  BY DEF XhrInit
<1> QED BY <1>1, <1>2 DEF XhrInv, XhrTyped

\* The object keeps its url and what it has of an answer, or forgets it.
LEMMA ObjectXhr ==
    ASSUME XhrInv, xhr' \in Requests, xhr'.url = xhr.url, xhr'.answered = xhr.answered,
           xhr'.body \in {xhr.body, NoUrl}, sends' = sends, reopened' = reopened
    PROVE  XhrInv'
BY DEF XhrInv, XhrTyped

LEMMA OpenXhr == ASSUME XhrInv, NEW url \in Urls, Open(url) PROVE XhrInv'
<1>1. xhr' = Reset(url) /\ sends' = sends /\ (reopened' = (reopened \/ sends # <<>>))
  BY DEF Open
<1>2. xhr' \in Requests /\ xhr'.answered = NoUrl /\ xhr'.body = NoUrl
  <2> DEFINE o == [xhr EXCEPT !.url = url, !.readyState = OPENED, !.status = 0,
                              !.answered = NoUrl, !.body = NoUrl, !.sent = FALSE]
  <2>1. xhr \in Requests
    BY DEF XhrInv, XhrTyped
  <2>2. o \in Requests
    BY <2>1 DEF Requests, OPENED
  <2>3. o.answered = NoUrl /\ o.body = NoUrl
    BY <2>1 DEF Requests
  <2> HIDE DEF o
  <2>4. Reset(url) = o
    BY DEF Reset, o
  <2> QED BY <1>1, <2>2, <2>3, <2>4
<1>3. ~ reopened' => sends' = <<>>
  BY <1>1
<1>4. XhrTyped'
  BY <1>1, <1>2 DEF XhrInv, XhrTyped
<1> QED BY <1>2, <1>3, <1>4 DEF XhrInv

\* setRequestHeader and abort change neither the url nor the answer's.
LEMMA CallXhr == XhrInv /\ (SetRequestHeader \/ Abort) => XhrInv'
<1> SUFFICES ASSUME XhrInv, SetRequestHeader \/ Abort PROVE XhrInv'
  OBVIOUS
<1>1. xhr \in Requests
  BY DEF XhrInv, XhrTyped
<1>2. sends' = sends /\ reopened' = reopened
  BY DEF SetRequestHeader, Abort
<1>3. CASE SetRequestHeader
  <2>1. xhr' = [xhr EXCEPT !.headers = @ + 1]
    BY <1>3 DEF SetRequestHeader
  <2>2. /\ xhr' \in Requests /\ xhr'.url = xhr.url /\ xhr'.answered = xhr.answered
        /\ xhr'.body = xhr.body
    BY <1>1, <2>1 DEF Requests
  <2> QED BY <1>2, <2>2, ObjectXhr
<1>4. CASE Abort
  <2> DEFINE o == [xhr EXCEPT !.readyState = DONE, !.sent = FALSE, !.status = 0,
                              !.body = NoUrl]
  <2>1. o \in Requests
    BY <1>1 DEF Requests, DONE
  <2>2. o.url = xhr.url /\ o.answered = xhr.answered /\ o.body = NoUrl
    BY <1>1 DEF Requests
  <2> HIDE DEF o
  <2>3. xhr' = o
    BY <1>4 DEF Abort, o
  <2> QED BY <1>2, <2>1, <2>2, <2>3, ObjectXhr
<1> QED BY <1>3, <1>4

LEMMA SendXhr == XhrInv /\ SendRequest => XhrInv'
<1> SUFFICES ASSUME XhrInv, SendRequest PROVE XhrInv'
  OBVIOUS
<1> DEFINE Sending == [url : Urls \cup {NoUrl}, todo : Todo]
           call == [url |-> xhr.url, todo |-> <<"request">>]
<1>1. xhr \in Requests /\ sends \in Seq(Sending)
  BY DEF XhrInv, XhrTyped
<1>2. xhr' = [xhr EXCEPT !.sent = TRUE] /\ sends' = Append(sends, call) /\ reopened' = reopened
  BY DEF SendRequest
<1>3. /\ xhr' \in Requests /\ xhr'.url = xhr.url /\ xhr'.answered = xhr.answered
      /\ xhr'.body = xhr.body
  BY <1>1, <1>2 DEF Requests
<1>4. call \in Sending /\ call.url = xhr.url
  BY <1>1, TodoFacts DEF Requests
<1> HIDE DEF Sending, call
<1>5. sends' \in Seq(Sending)
  BY <1>1, <1>2, <1>4
<1>6. \A i \in DOMAIN sends' : \/ i \in DOMAIN sends /\ sends'[i] = sends[i]
                             \/ sends'[i] = call
  BY <1>1, <1>2, <1>4
<1> QED BY <1>2, <1>3, <1>4, <1>5, <1>6 DEF XhrInv, XhrTyped, Sending

\* All but the last member of a sequence.
LEMMA FrontFacts ==
    ASSUME NEW S, NEW s \in Seq(S), s # <<>>
    PROVE  /\ Front(s) \in Seq(S) /\ Len(Front(s)) = Len(s) - 1
           /\ DOMAIN Front(s) = 1 .. Len(s) - 1 /\ DOMAIN s = 1 .. Len(s)
           /\ \A i \in 1 .. Len(s) - 1 : Front(s)[i] = s[i]
           /\ Len(s) \in Nat \ {0} /\ s[Len(s)] \in S
<1>1. Len(s) \in Nat \ {0} /\ DOMAIN s = 1 .. Len(s) /\ \A i \in 1 .. Len(s) : s[i] \in S
  OBVIOUS
<1>2. SubSeq(s, 1, Len(s) - 1) \in Seq(S)
  BY <1>1
<1>3. Len(SubSeq(s, 1, Len(s) - 1)) = Len(s) - 1
      /\ \A i \in 1 .. Len(s) - 1 : SubSeq(s, 1, Len(s) - 1)[i] = s[i]
  BY <1>1
<1> QED BY <1>1, <1>2, <1>3 DEF Front

\* The innermost send goes on, with its url.
LEMMA CurrentXhr ==
    ASSUME XhrInv, sends # <<>>, NEW todo \in Todo,
           sends' = Front(sends) \o <<[Current EXCEPT !.todo = todo]>>
    PROVE  /\ sends' \in Seq([url : Urls \cup {NoUrl}, todo : Todo])
           /\ DOMAIN sends' = DOMAIN sends
           /\ \A i \in DOMAIN sends : sends'[i].url = sends[i].url
<1> DEFINE Sending == [url : Urls \cup {NoUrl}, todo : Todo]
           n == Len(sends)
           last == [Current EXCEPT !.todo = todo]
           front == Front(sends)
<1>1. sends \in Seq(Sending)
  BY DEF XhrInv, XhrTyped
<1>2. \A c \in Sending : [c EXCEPT !.todo = todo] \in Sending /\ [c EXCEPT !.todo = todo].url = c.url
  OBVIOUS
<1> HIDE DEF Sending
<1>3. /\ front \in Seq(Sending) /\ Len(front) = n - 1 /\ n \in Nat \ {0}
      /\ DOMAIN sends = 1 .. n /\ sends[n] \in Sending
      /\ \A i \in 1 .. n - 1 : front[i] = sends[i]
  BY <1>1, FrontFacts
<1>4. Current = sends[n]
  BY DEF Current, Last
<1>5. last \in Sending /\ last.url = sends[n].url
  BY <1>2, <1>3, <1>4
<1>6. sends' = front \o <<last>>
  OBVIOUS
<1> HIDE DEF last, front, n
<1>7. /\ sends' \in Seq(Sending) /\ DOMAIN sends' = 1 .. n
      /\ sends'[n] = last /\ \A i \in 1 .. n - 1 : sends'[i] = front[i]
  <2>1. Len(front) + 1 = n
    BY <1>3
  <2> DEFINE put == front \o <<last>>
  <2>2. /\ put \in Seq(Sending) /\ DOMAIN put = 1 .. Len(front) + 1
        /\ put[Len(front) + 1] = last /\ \A i \in 1 .. Len(front) : put[i] = front[i]
    BY <1>3, <1>5, PutLast
  <2>3. sends' = put
    BY <1>6
  <2> HIDE DEF put
  <2> QED BY <1>3, <2>1, <2>2, <2>3
<1>8. \A i \in 1 .. n : i = n \/ i \in 1 .. n - 1
  BY <1>3
<1> QED BY <1>3, <1>5, <1>7, <1>8 DEF Sending

LEMMA RequestXhr == XhrInv /\ Request => XhrInv'
<1> SUFFICES ASSUME XhrInv, Request PROVE XhrInv'
  OBVIOUS
<1>1. PICK todo \in {<<"headers", "loading", "progress", "done", "load", "loadend">>,
                     <<"failed", "error", "loadend">>} :
        sends' = Front(sends) \o <<[Current EXCEPT !.todo = todo]>>
  BY DEF Request
<1>2. sends # <<>> /\ xhr' = xhr /\ reopened' = reopened
  BY DEF Request
<1>3. todo \in Todo
  BY TodoFacts
<1> QED BY <1>1, <1>2, <1>3, CurrentXhr DEF XhrInv, XhrTyped

\* What a step of a send does to the object.
LEMMA AfterFacts ==
    ASSUME xhr \in Requests, Current.url \in Urls \cup {NoUrl}, NEW step
    PROVE  /\ After(step) \in Requests /\ After(step).url = xhr.url
           /\ After(step).answered \in {xhr.answered, Current.url}
           /\ After(step).body \in {xhr.body, Current.url}
<1> DEFINE u == Current.url
           headers == [xhr EXCEPT !.readyState = HEADERS_RECEIVED, !.status = 200, !.answered = u]
           loading == [xhr EXCEPT !.readyState = LOADING]
           done == [xhr EXCEPT !.readyState = DONE, !.body = u]
           failed == [xhr EXCEPT !.readyState = DONE]
           Good(o) == /\ o \in Requests /\ o.url = xhr.url
                      /\ o.answered \in {xhr.answered, u} /\ o.body \in {xhr.body, u}
<1>1. u \in Urls \cup {NoUrl}
  OBVIOUS
<1> HIDE DEF u
<1>2. Good(headers)
  <2>1. headers \in Requests
    <3> DEFINE h == [xhr EXCEPT !.answered = u]
           k == [h EXCEPT !.readyState = HEADERS_RECEIVED]
    <3>1. h \in Requests
      BY <1>1 DEF Requests
    <3>2. headers = [k EXCEPT !.status = 200]
      BY DEF Requests
    <3> HIDE DEF h
    <3>3. k \in Requests
      BY <3>1 DEF Requests, HEADERS_RECEIVED
    <3> HIDE DEF k
    <3>4. [k EXCEPT !.status = 200] \in Requests
      BY <3>3 DEF Requests
    <3> QED BY <3>2, <3>4
  <2>2. headers.url = xhr.url /\ headers.answered = u /\ headers.body = xhr.body
    BY DEF Requests
  <2> QED BY <2>1, <2>2
<1>3. Good(loading)
  BY <1>1 DEF Requests, LOADING
<1>4. Good(done)
  BY <1>1 DEF Requests, DONE
<1>5. Good(failed)
  BY <1>1 DEF Requests, DONE
<1>6. Good(xhr)
  OBVIOUS
<1> HIDE DEF headers, loading, done, failed, Good
<1>7. After(step) \in {headers, loading, done, failed, xhr}
  BY DEF After, headers, loading, done, failed, u
<1>8. Good(After(step))
  BY <1>2, <1>3, <1>4, <1>5, <1>6, <1>7
<1> QED BY <1>8 DEF Good, u

LEMMA StepXhr == XhrInv /\ SendStep => XhrInv'
<1> SUFFICES ASSUME XhrInv, SendStep PROVE XhrInv'
  OBVIOUS
<1> DEFINE Sending == [url : Urls \cup {NoUrl}, todo : Todo]
           step == Head(Current.todo)
           rest == Tail(Current.todo)
<1>1. /\ sends # <<>> /\ Current.todo # <<>> /\ xhr' = After(step) /\ reopened' = reopened
      /\ sends' = Front(sends) \o <<[Current EXCEPT !.todo = Tail(@)]>>
  BY DEF SendStep
<1>2. xhr \in Requests /\ sends \in Seq(Sending)
  BY DEF XhrInv, XhrTyped
<1>3. Len(sends) \in DOMAIN sends /\ Current = sends[Len(sends)] /\ Current \in Sending
  <2> HIDE DEF Sending
  <2>1. Len(sends) \in DOMAIN sends /\ sends[Len(sends)] \in Sending
    BY <1>1, <1>2
  <2> QED BY <2>1 DEF Current, Last
<1>4. rest \in Todo
  BY <1>1, <1>3 DEF Todo
<1>5. sends' = Front(sends) \o <<[Current EXCEPT !.todo = rest]>>
  BY <1>1, <1>3
<1> HIDE DEF step, rest
<1>6. /\ sends' \in Seq([url : Urls \cup {NoUrl}, todo : Todo]) /\ DOMAIN sends' = DOMAIN sends
      /\ \A i \in DOMAIN sends : sends'[i].url = sends[i].url
  BY <1>1, <1>4, <1>5, CurrentXhr
<1>7. Current.url \in Urls \cup {NoUrl}
  BY <1>3
<1>8. /\ After(step) \in Requests /\ After(step).url = xhr.url
      /\ After(step).answered \in {xhr.answered, Current.url}
      /\ After(step).body \in {xhr.body, Current.url}
  BY <1>2, <1>7, AfterFacts
<1>9. ~ reopened => Current.url = xhr.url
  BY <1>3 DEF XhrInv
<1> QED BY <1>1, <1>6, <1>8, <1>9 DEF XhrInv, XhrTyped

LEMMA ReturnXhr == XhrInv /\ SendReturns => XhrInv'
<1> SUFFICES ASSUME XhrInv, SendReturns PROVE XhrInv'
  OBVIOUS
<1> DEFINE Sending == [url : Urls \cup {NoUrl}, todo : Todo]
<1>1. sends # <<>> /\ sends' = Front(sends) /\ xhr' = xhr /\ reopened' = reopened
  BY DEF SendReturns
<1>2. sends \in Seq(Sending)
  BY DEF XhrInv, XhrTyped
<1> HIDE DEF Sending
<1>3. /\ Front(sends) \in Seq(Sending)
      /\ DOMAIN Front(sends) = 1 .. Len(sends) - 1 /\ DOMAIN sends = 1 .. Len(sends)
      /\ \A i \in 1 .. Len(sends) - 1 : Front(sends)[i] = sends[i]
      /\ Len(sends) \in Nat \ {0}
  BY <1>1, <1>2, FrontFacts
<1>4. \A i \in DOMAIN Front(sends) : i \in DOMAIN sends /\ Front(sends)[i] = sends[i]
  BY <1>3
<1> QED BY <1>1, <1>3, <1>4 DEF XhrInv, XhrTyped, Sending

LEMMA NextXhr == XhrInv /\ [XhrNext]_xhrVars => XhrInv'
<1> SUFFICES ASSUME XhrInv, [XhrNext]_xhrVars PROVE XhrInv'
  OBVIOUS
<1>1. CASE UNCHANGED xhrVars
  BY <1>1 DEF xhrVars, XhrInv, XhrTyped
<1> QED BY <1>1, OpenXhr, CallXhr, SendXhr, RequestXhr, StepXhr, ReturnXhr DEF XhrNext

\* However deep the sends of a request nest, and whatever its handlers set,
\* abort and send again: what a script reads is of the url the object has,
\* unless a handler opened it while a send was under way.
THEOREM AnswersAreOfUrl == XhrSpec => []AnswerIsOfUrl
<1>1. XhrInv => AnswerIsOfUrl
  BY DEF XhrInv, AnswerIsOfUrl, ResponseText, ResponseHeader
<1> QED BY <1>1, InitXhr, NextXhr, PTL DEF XhrSpec

-----------------------------------------------------------------------------
(* Timers and animation frames.                                            *)

Kinds == {Timeout, Interval}
Entry == [id : Nat, due : Nat, every : Nat, kind : Kinds]

\* No timer is in a list twice.
DistinctIds(s) == \A i, j \in DOMAIN s : s[i].id = s[j].id => i = j

\* The timers of a kind in a list, and the lists of them with numbers under n.
Ids(s, k) == {n \in Nat : \E i \in DOMAIN s : s[i].id = n /\ s[i].kind = k}
Under(s, n) == \A i \in DOMAIN s : s[i].id < n

LoopInv ==
    /\ now \in Nat /\ nextTimer \in Nat /\ nextFrame \in Nat
    /\ timers \in Seq(Entry) /\ DistinctIds(timers) /\ Under(timers, nextTimer)
    /\ Ids(timers, Interval) = intervals /\ Ids(timers, Timeout) \subseteq timeouts
    /\ timeouts \cap intervals = {} /\ \A n \in timeouts : n \in Nat /\ n < nextTimer
    /\ frames \in Seq(Nat) /\ IsInjective(frames) /\ \A i \in DOMAIN frames : frames[i] < nextFrame
    /\ taken \in Seq({"timer", "frame"} \X Nat) /\ IsInjective(taken)
    /\ \A n \in Nat : <<"frame", n>> \in ToSet(taken) => n < nextFrame /\ n \notin ToSet(frames)
    /\ calling => taken # <<>>

\* What is kept of a list is in it, and no timer of it is in it twice.
LEMMA RetainedTimers ==
    ASSUME NEW s \in Seq(Entry), DistinctIds(s), NEW S
    PROVE  LET r == Retained(s, S)
           IN  /\ r \in Seq(Entry) /\ DistinctIds(r)
               /\ \A i \in DOMAIN r : r[i] \in S /\ \E j \in DOMAIN s : r[i] = s[j]
               /\ \A j \in DOMAIN s : s[j] \in S => \E i \in DOMAIN r : r[i] = s[j]
<1> DEFINE r == Retained(s, S)
<1>1. r \in Seq(Entry)
  BY RetainedPlaces
<1>2. PICK h : Places(h, r, s, S, Len(s))
  BY RetainedPlaces
<1> HIDE DEF r
<1>3. DOMAIN r = 1 .. Len(r) /\ Len(r) \in Nat /\ DOMAIN s = 1 .. Len(s)
  BY <1>1
<1>4. \A i \in DOMAIN r : r[i] \in S /\ h[i] \in DOMAIN s /\ r[i] = s[h[i]]
  BY <1>2, <1>3 DEF Places
<1>5. \A j \in DOMAIN s : s[j] \in S => \E i \in DOMAIN r : r[i] = s[j]
  BY <1>2, <1>3 DEF Places
<1>6. DistinctIds(r)
  <2> SUFFICES ASSUME NEW i \in DOMAIN r, NEW j \in DOMAIN r, r[i].id = r[j].id, i < j
               PROVE  FALSE
    BY <1>3 DEF DistinctIds
  <2>1. h[i] = h[j]
    BY <1>4 DEF DistinctIds
  <2>2. h[i] < h[j] /\ h[i] \in 1 .. Len(s)
    BY <1>2, <1>3 DEF Places
  <2> QED BY <2>1, <2>2
<1> QED BY <1>1, <1>4, <1>5, <1>6 DEF r

LEMMA SetOne ==
    ASSUME NEW s \in Seq(Entry), DistinctIds(s), NEW e \in Entry, Under(s, e.id)
    PROVE  LET r == Append(s, e)
           IN  /\ r \in Seq(Entry) /\ DistinctIds(r) /\ Under(r, e.id + 1)
               /\ \A k : Ids(r, k) = Ids(s, k) \cup IF e.kind = k THEN {e.id} ELSE {}
<1> DEFINE r == Append(s, e)
<1>1. /\ r \in Seq(Entry) /\ Len(r) = Len(s) + 1 /\ DOMAIN r = 1 .. Len(s) + 1 /\ Len(s) \in Nat
      /\ DOMAIN s = 1 .. Len(s) /\ r[Len(s) + 1] = e /\ \A i \in 1 .. Len(s) : r[i] = s[i]
  OBVIOUS
<1>0. e.id \in Nat /\ \A i \in 1 .. Len(s) : s[i].id \in Nat
  <2>1. \A i \in 1 .. Len(s) : s[i] \in Entry
    OBVIOUS
  <2> QED BY <2>1 DEF Entry
<1>2. \A i \in DOMAIN r : i \in DOMAIN s \/ i = Len(s) + 1
  BY <1>1
<1> HIDE DEF r
<1>3. DistinctIds(r) /\ Under(r, e.id + 1)
  BY <1>0, <1>1, <1>2 DEF DistinctIds, Under
<1>4. ASSUME NEW k PROVE Ids(r, k) = Ids(s, k) \cup IF e.kind = k THEN {e.id} ELSE {}
  <2>1. DOMAIN s \subseteq DOMAIN r /\ Len(s) + 1 \in DOMAIN r
    BY <1>1
  <2> QED BY <1>0, <1>1, <1>2, <2>1 DEF Ids
<1> QED BY <1>1, <1>3, <1>4 DEF r

LEMMA CancelOne ==
    ASSUME NEW s \in Seq(Entry), DistinctIds(s), NEW n
    PROVE  LET r == Retained(s, {t \in ToSet(s) : t.id # n})
           IN  /\ r \in Seq(Entry) /\ DistinctIds(r)
               /\ \A m : Under(s, m) => Under(r, m)
               /\ \A k : Ids(r, k) = Ids(s, k) \ {n}
<1> DEFINE S == {t \in ToSet(s) : t.id # n}
           r == Retained(s, S)
<1>1. \A j \in DOMAIN s : s[j] \in S <=> s[j].id # n
  BY DEF ToSet
<1>2. \A t \in S : t.id # n
  OBVIOUS
<1> HIDE DEF S
<1>3. /\ r \in Seq(Entry) /\ DistinctIds(r)
      /\ \A i \in DOMAIN r : r[i] \in S /\ \E j \in DOMAIN s : r[i] = s[j]
      /\ \A j \in DOMAIN s : s[j] \in S => \E i \in DOMAIN r : r[i] = s[j]
  BY RetainedTimers
<1> HIDE DEF r
<1>4. \A m : Under(s, m) => Under(r, m)
  BY <1>3 DEF Under
<1>5. ASSUME NEW k PROVE Ids(r, k) = Ids(s, k) \ {n}
  BY <1>1, <1>2, <1>3 DEF Ids
<1> QED BY <1>3, <1>4, <1>5 DEF r, S

\* An interval that is set again.
LEMMA SetAgain ==
    ASSUME NEW a \in Entry, now \in Nat
    PROVE  LET b == [a EXCEPT !.due = now + a.every]
           IN  b \in Entry /\ b.id = a.id /\ b.kind = a.kind
  BY DEF Entry

\* A pass over the timers.
LEMMA PassOnce ==
    ASSUME NEW s \in Seq(Entry), DistinctIds(s), now \in Nat
    PROVE  LET due == Retained(s, {t \in ToSet(s) : t.due <= now})
               r == Retained(s, {t \in ToSet(s) : t.due > now}) \o Repeated(due)
           IN  /\ r \in Seq(Entry) /\ DistinctIds(r) /\ due \in Seq(Entry) /\ DistinctIds(due)
               /\ \A m : Under(s, m) => Under(r, m)
               /\ Ids(r, Interval) = Ids(s, Interval) /\ Ids(r, Timeout) \subseteq Ids(s, Timeout)
<1> DEFINE E == {t \in ToSet(s) : t.due <= now}
           L == {t \in ToSet(s) : t.due > now}
           due == Retained(s, E)
           rest == Retained(s, L)
           I == {t \in ToSet(due) : t.kind = Interval}
           again == Retained(due, I)
           back == [i \in DOMAIN again |-> [again[i] EXCEPT !.due = now + again[i].every]]
           r == rest \o back
<1>1. /\ \A j \in DOMAIN s : s[j] \in E \/ s[j] \in L
      /\ \A t \in E : t \notin L
  <2>1. \A j \in DOMAIN s : s[j] \in Entry
    OBVIOUS
  <2>2. \A t \in ToSet(s) : t.due \in Nat
    BY <2>1 DEF ToSet, Entry
  <2> QED BY <2>1, <2>2 DEF ToSet
<1>2. /\ \A j \in DOMAIN due : due[j] \in I <=> due[j].kind = Interval
      /\ \A t \in I : t.kind = Interval
  BY DEF ToSet
<1> HIDE DEF E, L, I
<1>3. /\ due \in Seq(Entry) /\ DistinctIds(due)
      /\ \A i \in DOMAIN due : due[i] \in E /\ \E j \in DOMAIN s : due[i] = s[j]
      /\ \A j \in DOMAIN s : s[j] \in E => \E i \in DOMAIN due : due[i] = s[j]
  BY RetainedTimers
<1>4. /\ rest \in Seq(Entry) /\ DistinctIds(rest)
      /\ \A i \in DOMAIN rest : rest[i] \in L /\ \E j \in DOMAIN s : rest[i] = s[j]
      /\ \A j \in DOMAIN s : s[j] \in L => \E i \in DOMAIN rest : rest[i] = s[j]
  BY RetainedTimers
<1> HIDE DEF due, rest
<1>5. /\ again \in Seq(Entry) /\ DistinctIds(again)
      /\ \A i \in DOMAIN again : again[i] \in I /\ \E j \in DOMAIN due : again[i] = due[j]
      /\ \A j \in DOMAIN due : due[j] \in I => \E i \in DOMAIN again : again[i] = due[j]
  <2>1. due \in Seq(Entry) /\ DistinctIds(due)
    BY <1>3
  <2> QED BY <2>1, RetainedTimers
<1>6. Repeated(due) = back
  BY DEF Repeated, I
<1> HIDE DEF again
<1>7. /\ DOMAIN back = 1 .. Len(again) /\ back \in Seq(Entry) /\ Len(back) = Len(again)
      /\ \A i \in DOMAIN again : back[i].id = again[i].id /\ back[i].kind = again[i].kind
      /\ DOMAIN again = 1 .. Len(again) /\ Len(again) \in Nat
  <2>1. DOMAIN again = 1 .. Len(again) /\ Len(again) \in Nat
    BY <1>5
  <2>2. \A i \in DOMAIN again : /\ back[i] \in Entry
                                /\ back[i].id = again[i].id /\ back[i].kind = again[i].kind
    <3> SUFFICES ASSUME NEW i \in DOMAIN again
                 PROVE  /\ back[i] \in Entry
                        /\ back[i].id = again[i].id /\ back[i].kind = again[i].kind
      OBVIOUS
    <3>1. again[i] \in Entry
      BY <1>5
    <3>2. back[i] = [again[i] EXCEPT !.due = now + again[i].every]
      OBVIOUS
    <3> HIDE DEF back
    <3> QED BY <3>1, <3>2, SetAgain
  <2>3. DOMAIN back = 1 .. Len(again) /\ \A i \in 1 .. Len(again) : back[i] \in Entry
    BY <2>1, <2>2
  <2>4. back \in Seq(Entry) /\ Len(back) = Len(again)
    <3> HIDE DEF back
    <3>1. back = [i \in 1 .. Len(again) |-> back[i]]
      BY <2>1 DEF back
    <3> QED BY <2>1, <2>3, <3>1
  <2> QED BY <2>1, <2>2, <2>3, <2>4
<1> HIDE DEF back
<1>8. /\ r \in Seq(Entry) /\ DOMAIN r = 1 .. Len(rest) + Len(back) /\ Len(rest) \in Nat /\ Len(back) \in Nat
      /\ DOMAIN rest = 1 .. Len(rest) /\ DOMAIN back = 1 .. Len(back)
      /\ \A i \in DOMAIN rest : r[i] = rest[i]
      /\ \A i \in DOMAIN back : r[Len(rest) + i] = back[i]
  <2>1. rest \in Seq(Entry) /\ back \in Seq(Entry)
    BY <1>4, <1>7
  <2> QED BY <2>1
<1> HIDE DEF r
<1>9. \A i \in DOMAIN r : \/ i \in DOMAIN rest /\ r[i] = rest[i]
                          \/ i - Len(rest) \in DOMAIN back /\ r[i] = back[i - Len(rest)] /\ i > Len(rest)
  <2> SUFFICES ASSUME NEW i \in DOMAIN r, i \notin DOMAIN rest
               PROVE  i - Len(rest) \in DOMAIN back /\ r[i] = back[i - Len(rest)] /\ i > Len(rest)
    BY <1>8
  <2>1. i - Len(rest) \in DOMAIN back /\ i > Len(rest) /\ Len(rest) + (i - Len(rest)) = i
    BY <1>8
  <2> QED BY <1>8, <2>1
<1>10. \A i \in DOMAIN back : \E j \in DOMAIN s : /\ back[i].id = s[j].id /\ s[j] \in E
                                                  /\ back[i].kind = Interval /\ s[j].kind = Interval
  <2> SUFFICES ASSUME NEW i \in DOMAIN back
               PROVE  \E j \in DOMAIN s : /\ back[i].id = s[j].id /\ s[j] \in E
                                          /\ back[i].kind = Interval /\ s[j].kind = Interval
    OBVIOUS
  <2>1. i \in DOMAIN again /\ back[i].id = again[i].id /\ back[i].kind = again[i].kind
        /\ again[i].kind = Interval
    BY <1>2, <1>5, <1>7
  <2>2. PICK d \in DOMAIN due : again[i] = due[d]
    BY <1>5, <2>1
  <2>3. PICK j \in DOMAIN s : due[d] = s[j] /\ due[d] \in E
    BY <1>3
  <2> QED BY <2>1, <2>2, <2>3
<1>11. \A i \in DOMAIN rest, j \in DOMAIN back : rest[i].id # back[j].id
  BY <1>1, <1>4, <1>10 DEF DistinctIds
<1>12. DistinctIds(back)
  BY <1>5, <1>7 DEF DistinctIds
<1>13. DistinctIds(r)
  <2> SUFFICES ASSUME NEW i \in DOMAIN r, NEW j \in DOMAIN r, r[i].id = r[j].id PROVE i = j
    BY DEF DistinctIds
  <2>0. i \in Nat /\ j \in Nat
    BY <1>8
  <2>1. CASE i \in DOMAIN rest /\ j \in DOMAIN rest
    BY <1>4, <1>8, <2>1 DEF DistinctIds
  <2>2. CASE i \notin DOMAIN rest /\ j \notin DOMAIN rest
    <3>1. i - Len(rest) = j - Len(rest)
      BY <1>9, <1>12, <2>2 DEF DistinctIds
    <3> QED BY <1>8, <2>0, <3>1
  <2>3. CASE i \in DOMAIN rest /\ j \notin DOMAIN rest
    BY <1>8, <1>9, <1>11, <2>3
  <2>4. CASE i \notin DOMAIN rest /\ j \in DOMAIN rest
    BY <1>8, <1>9, <1>11, <2>4
  <2> QED BY <2>1, <2>2, <2>3, <2>4
<1>14. \A i \in DOMAIN r : \E j \in DOMAIN s : r[i].id = s[j].id /\ r[i].kind = s[j].kind
  <2> SUFFICES ASSUME NEW i \in DOMAIN r
               PROVE  \E j \in DOMAIN s : r[i].id = s[j].id /\ r[i].kind = s[j].kind
    OBVIOUS
  <2>1. CASE i \in DOMAIN rest /\ r[i] = rest[i]
    BY <1>4, <2>1
  <2>2. CASE i - Len(rest) \in DOMAIN back /\ r[i] = back[i - Len(rest)]
    <3> DEFINE b == i - Len(rest)
    <3>1. b \in DOMAIN back /\ r[i] = back[b]
      BY <2>2
    <3> HIDE DEF b
    <3> QED BY <1>10, <3>1
  <2> QED BY <1>9, <2>1, <2>2
<1>15. \A m : Under(s, m) => Under(r, m)
  BY <1>14 DEF Under
<1>16. Ids(r, Interval) \subseteq Ids(s, Interval) /\ Ids(r, Timeout) \subseteq Ids(s, Timeout)
  BY <1>14 DEF Ids
<1>17. Ids(s, Interval) \subseteq Ids(r, Interval)
  <2> SUFFICES ASSUME NEW j \in DOMAIN s, s[j].kind = Interval, s[j].id \in Nat
               PROVE  \E i \in DOMAIN r : r[i].id = s[j].id /\ r[i].kind = Interval
    BY DEF Ids
  <2>1. CASE s[j] \in L
    <3>1. PICK i \in DOMAIN rest : rest[i] = s[j]
      BY <1>4, <2>1
    <3>2. i \in DOMAIN r
      BY <1>8
    <3> QED BY <1>8, <3>1, <3>2
  <2>2. CASE s[j] \in E
    <3>1. PICK d \in DOMAIN due : due[d] = s[j]
      BY <1>3, <2>2
    <3>2. PICK a \in DOMAIN again : again[a] = due[d]
      BY <1>2, <1>5, <3>1
    <3>3. Len(rest) + a \in DOMAIN r /\ a \in DOMAIN back
      BY <1>7, <1>8
    <3>4. r[Len(rest) + a].id = s[j].id /\ r[Len(rest) + a].kind = s[j].kind
      BY <1>7, <1>8, <3>1, <3>2, <3>3
    <3> QED BY <3>3, <3>4
  <2> QED BY <1>1, <2>1, <2>2
<1> QED BY <1>3, <1>6, <1>8, <1>13, <1>15, <1>16, <1>17 DEF r, due, rest, E, L

-----------------------------------------------------------------------------

LEMMA InitLoop == LoopInit => LoopInv
<1> SUFFICES ASSUME LoopInit PROVE LoopInv
  OBVIOUS
<1>1. /\ timers = <<>> /\ frames = <<>> /\ taken = <<>> /\ timeouts = {} /\ intervals = {}
      /\ now = 0 /\ nextTimer = 1 /\ nextFrame = 1 /\ ~ calling
  BY DEF LoopInit
<1>2. \A S : <<>> \in Seq(S)
  OBVIOUS
<1>3. DOMAIN <<>> = {}
  OBVIOUS
<1> QED BY <1>1, <1>2, <1>3 DEF LoopInv, DistinctIds, Under, Ids, IsInjective, ToSet

LEMMA SetLoop ==
    ASSUME LoopInv, NEW sort \in Kinds, NEW delay \in Delays, SetTimer(sort, delay)
    PROVE  LoopInv'
<1> DEFINE e == [id |-> nextTimer, due |-> now + delay, every |-> delay, kind |-> sort]
<1>1. e \in Entry /\ e.id = nextTimer /\ e.kind = sort
  BY LoopAssumption DEF LoopInv, Entry
<1>2. /\ timers' = Append(timers, e) /\ nextTimer' = nextTimer + 1
      /\ timeouts' = timeouts \cup IF sort = Timeout THEN {nextTimer} ELSE {}
      /\ intervals' = intervals \cup IF sort = Interval THEN {nextTimer} ELSE {}
      /\ UNCHANGED <<now, frames, nextFrame, taken, calling>>
  BY DEF SetTimer
<1> HIDE DEF e
<1>3. /\ timers \in Seq(Entry) /\ DistinctIds(timers) /\ Under(timers, nextTimer) /\ nextTimer \in Nat
  BY DEF LoopInv
<1>4. /\ timers' \in Seq(Entry) /\ DistinctIds(timers') /\ Under(timers', nextTimer')
      /\ \A k : Ids(timers', k) = Ids(timers, k) \cup IF sort = k THEN {nextTimer} ELSE {}
  BY <1>1, <1>2, <1>3, SetOne
<1>5. nextTimer \notin intervals
  <2> SUFFICES ASSUME nextTimer \in Ids(timers, Interval) PROVE FALSE
    BY DEF LoopInv
  <2>1. PICK i \in DOMAIN timers : timers[i].id = nextTimer
    BY DEF Ids
  <2> QED BY <1>3, <2>1 DEF Under
<1> QED BY <1>2, <1>3, <1>4, <1>5 DEF LoopInv, Timeout, Interval

LEMMA ClearLoop ==
    ASSUME LoopInv, NEW id \in Nat, ClearTimeout(id) \/ ClearInterval(id)
    PROVE  LoopInv'
<1>1. timers \in Seq(Entry) /\ DistinctIds(timers) /\ timers' = Cancelled(id)
      /\ UNCHANGED <<now, nextTimer, frames, nextFrame, taken, calling>>
  BY DEF LoopInv, ClearTimeout, ClearInterval
<1>2. /\ timers' \in Seq(Entry) /\ DistinctIds(timers')
      /\ \A m : Under(timers, m) => Under(timers', m)
      /\ \A k : Ids(timers', k) = Ids(timers, k) \ {id}
  BY <1>1, CancelOne DEF Cancelled
<1>3. \/ id \in timeouts /\ timeouts' = timeouts \ {id} /\ intervals' = intervals
      \/ id \in intervals /\ intervals' = intervals \ {id} /\ timeouts' = timeouts
  BY DEF ClearTimeout, ClearInterval
<1>4. /\ Ids(timers, Interval) = intervals /\ Ids(timers, Timeout) \subseteq timeouts
      /\ timeouts \cap intervals = {} /\ Under(timers, nextTimer)
      /\ \A n \in timeouts : n \in Nat /\ n < nextTimer
  BY DEF LoopInv
<1>5. /\ Ids(timers', Interval) = intervals' /\ Ids(timers', Timeout) \subseteq timeouts'
      /\ timeouts' \cap intervals' = {}
  BY <1>2, <1>3, <1>4
<1>6. /\ \A n \in timeouts' : n \in Nat /\ n < nextTimer'
  BY <1>1, <1>3, <1>4
<1> QED BY <1>1, <1>2, <1>4, <1>5, <1>6 DEF LoopInv

\* What was taken: the callbacks of a list, each marked as what it is.
LEMMA TakeAll ==
    ASSUME NEW what \in {"timer", "frame"}, NEW s \in Seq(Nat), IsInjective(s)
    PROVE  LET t == [i \in DOMAIN s |-> <<what, s[i]>>]
           IN  /\ t \in Seq({"timer", "frame"} \X Nat) /\ IsInjective(t)
               /\ \A n : <<"frame", n>> \in ToSet(t) => what = "frame" /\ n \in ToSet(s)
<1> DEFINE t == [i \in DOMAIN s |-> <<what, s[i]>>]
<1>1. DOMAIN s = 1 .. Len(s) /\ Len(s) \in Nat /\ DOMAIN t = DOMAIN s /\ \A i \in DOMAIN s : s[i] \in Nat
  OBVIOUS
<1>2. t \in Seq({"timer", "frame"} \X Nat)
  BY <1>1
<1>3. IsInjective(t)
  BY <1>1 DEF IsInjective
<1>4. \A n : <<"frame", n>> \in ToSet(t) => what = "frame" /\ n \in ToSet(s)
  BY <1>1 DEF ToSet
<1> QED BY <1>2, <1>3, <1>4

LEMMA PassLoop == LoopInv /\ ProcessPendingTimers => LoopInv'
<1> SUFFICES ASSUME LoopInv, ProcessPendingTimers PROVE LoopInv'
  OBVIOUS
<1> DEFINE due == Retained(timers, {t \in ToSet(timers) : t.due <= now})
           ids == [i \in DOMAIN due |-> due[i].id]
           rest == Retained(timers, {t \in ToSet(timers) : t.due > now})
<1>1. /\ taken' = [i \in DOMAIN due |-> <<"timer", due[i].id>>] /\ timers' = rest \o Repeated(due)
      /\ UNCHANGED <<now, nextTimer, timeouts, intervals, frames, nextFrame, calling>> /\ ~ calling
  BY DEF ProcessPendingTimers
<1>2. timers \in Seq(Entry) /\ DistinctIds(timers) /\ now \in Nat
  BY DEF LoopInv
<1>3. /\ timers' \in Seq(Entry) /\ DistinctIds(timers') /\ due \in Seq(Entry) /\ DistinctIds(due)
      /\ \A m : Under(timers, m) => Under(timers', m)
      /\ Ids(timers', Interval) = Ids(timers, Interval) /\ Ids(timers', Timeout) \subseteq Ids(timers, Timeout)
  BY <1>1, <1>2, PassOnce
<1> HIDE DEF due, rest
<1>4. ids \in Seq(Nat) /\ IsInjective(ids) /\ DOMAIN ids = DOMAIN due
  <2>1. \A i \in DOMAIN due : due[i] \in Entry
    BY <1>3
  <2>2. \A i \in DOMAIN due : due[i].id \in Nat
    BY <2>1 DEF Entry
  <2>3. DOMAIN due = 1 .. Len(due) /\ Len(due) \in Nat
    BY <1>3
  <2>4. ids \in Seq(Nat)
    BY <2>2, <2>3
  <2> QED BY <1>3, <2>4 DEF DistinctIds, IsInjective
<1>5. taken' = [i \in DOMAIN ids |-> <<"timer", ids[i]>>]
  BY <1>1, <1>4
<1> HIDE DEF ids
<1>6. /\ taken' \in Seq({"timer", "frame"} \X Nat) /\ IsInjective(taken')
      /\ \A n : <<"frame", n>> \notin ToSet(taken')
  BY <1>4, <1>5, TakeAll
<1> QED BY <1>1, <1>3, <1>6 DEF LoopInv

LEMMA RequestLoop == LoopInv /\ RequestAnimationFrame => LoopInv'
<1> SUFFICES ASSUME LoopInv, RequestAnimationFrame PROVE LoopInv'
  OBVIOUS
<1>1. /\ frames' = Append(frames, nextFrame) /\ nextFrame' = nextFrame + 1
      /\ UNCHANGED <<now, timers, nextTimer, timeouts, intervals, taken, calling>>
  BY DEF RequestAnimationFrame
<1>2. frames \in Seq(Nat) /\ nextFrame \in Nat /\ IsInjective(frames)
      /\ \A i \in DOMAIN frames : frames[i] < nextFrame
  BY DEF LoopInv
<1>3. /\ frames' \in Seq(Nat) /\ DOMAIN frames' = 1 .. Len(frames) + 1 /\ DOMAIN frames = 1 .. Len(frames)
      /\ frames'[Len(frames) + 1] = nextFrame /\ \A i \in 1 .. Len(frames) : frames'[i] = frames[i]
      /\ Len(frames) \in Nat /\ \A i \in 1 .. Len(frames) : frames[i] \in Nat
  BY <1>1, <1>2
<1>4. \A i \in DOMAIN frames' : i \in DOMAIN frames \/ i = Len(frames) + 1
  BY <1>3
<1>5. IsInjective(frames') /\ \A i \in DOMAIN frames' : frames'[i] < nextFrame'
  BY <1>1, <1>2, <1>3, <1>4 DEF IsInjective
<1>6. ToSet(frames') \subseteq ToSet(frames) \cup {nextFrame}
  BY <1>3, <1>4 DEF ToSet
<1>7. \A n \in Nat : <<"frame", n>> \in ToSet(taken') => n < nextFrame' /\ n \notin ToSet(frames')
  BY <1>1, <1>2, <1>6 DEF LoopInv
<1> QED BY <1>1, <1>2, <1>3, <1>5, <1>7 DEF LoopInv

LEMMA CancelLoop == ASSUME LoopInv, NEW id, CancelAnimationFrame(id) PROVE LoopInv'
<1>1. /\ frames' = Retained(frames, ToSet(frames) \ {id})
      /\ UNCHANGED <<now, timers, nextTimer, timeouts, intervals, nextFrame, taken, calling>>
  BY DEF CancelAnimationFrame
<1>2. frames \in Seq(Nat) /\ IsInjective(frames) /\ \A n \in ToSet(frames) : n < nextFrame
  BY DEF LoopInv, ToSet
<1>3. frames' \in Seq(Nat) /\ IsInjective(frames') /\ ToSet(frames') \subseteq ToSet(frames)
  BY <1>1, <1>2, RetainedMembers
<1>4. \A i \in DOMAIN frames' : frames'[i] \in ToSet(frames')
  BY DEF ToSet
<1> QED BY <1>1, <1>2, <1>3, <1>4 DEF LoopInv

LEMMA ExecuteLoop == LoopInv /\ ExecutePendingRaf => LoopInv'
<1> SUFFICES ASSUME LoopInv, ExecutePendingRaf PROVE LoopInv'
  OBVIOUS
<1>1. /\ taken' = [i \in DOMAIN frames |-> <<"frame", frames[i]>>] /\ frames' = <<>>
      /\ UNCHANGED <<now, timers, nextTimer, timeouts, intervals, nextFrame, calling>> /\ ~ calling
  BY DEF ExecutePendingRaf
<1>2. frames \in Seq(Nat) /\ IsInjective(frames) /\ \A n \in ToSet(frames) : n < nextFrame
  BY DEF LoopInv, ToSet
<1>3. /\ taken' \in Seq({"timer", "frame"} \X Nat) /\ IsInjective(taken')
      /\ \A n : <<"frame", n>> \in ToSet(taken') => n \in ToSet(frames)
  BY <1>1, <1>2, TakeAll
<1>4. frames' \in Seq(Nat) /\ IsInjective(frames') /\ ToSet(frames') = {} /\ DOMAIN frames' = {}
  BY <1>1 DEF IsInjective, ToSet
<1> QED BY <1>1, <1>2, <1>3, <1>4 DEF LoopInv

LEMMA ReturnLoop == LoopInv /\ Return => LoopInv'
<1> SUFFICES ASSUME LoopInv, Return PROVE LoopInv'
  OBVIOUS
<1>1. /\ taken' = Tail(taken) /\ calling' = FALSE /\ taken # <<>>
      /\ UNCHANGED <<now, timers, nextTimer, timeouts, intervals, frames, nextFrame>>
  BY DEF Return, LoopInv
<1>2. taken \in Seq({"timer", "frame"} \X Nat) /\ IsInjective(taken)
  BY DEF LoopInv
<1>3. taken' \in Seq({"timer", "frame"} \X Nat)
  BY <1>1, <1>2
<1>4. /\ DOMAIN taken' = 1 .. Len(taken) - 1 /\ DOMAIN taken = 1 .. Len(taken) /\ Len(taken) \in Nat
      /\ \A i \in 1 .. Len(taken) - 1 : taken'[i] = taken[i + 1] /\ i + 1 \in DOMAIN taken
  BY <1>1, <1>2
<1>5. IsInjective(taken') /\ ToSet(taken') \subseteq ToSet(taken)
  <2>1. ToSet(taken') \subseteq ToSet(taken)
    BY <1>4 DEF ToSet
  <2>2. ASSUME NEW i \in 1 .. Len(taken) - 1, NEW j \in 1 .. Len(taken) - 1, taken'[i] = taken'[j]
        PROVE  i = j
    <3>1. i + 1 = j + 1
      BY <1>2, <1>4, <2>2 DEF IsInjective
    <3> QED BY <1>4, <3>1
  <2> QED BY <1>4, <2>1, <2>2 DEF IsInjective
<1> QED BY <1>1, <1>3, <1>5 DEF LoopInv

LEMMA NextLoop == LoopInv /\ [LoopNext]_loopVars => LoopInv'
<1> SUFFICES ASSUME LoopInv, [LoopNext]_loopVars PROVE LoopInv'
  OBVIOUS
<1>1. CASE UNCHANGED loopVars
  BY <1>1 DEF loopVars, LoopInv
<1>2. CASE Call
  BY <1>2 DEF Call, LoopInv
<1>3. CASE TimePasses
  BY <1>3 DEF TimePasses, LoopInv
<1>4. ASSUME NEW sort \in {Timeout, Interval}, NEW delay \in Delays, SetTimer(sort, delay) PROVE LoopInv'
  BY <1>4, SetLoop DEF Kinds
<1>5. ASSUME NEW id \in 1 .. MaxTimer, ClearTimeout(id) \/ ClearInterval(id) PROVE LoopInv'
  BY <1>5, ClearLoop, LoopAssumption
<1> QED BY <1>1, <1>2, <1>3, <1>4, <1>5, PassLoop, RequestLoop, CancelLoop, ExecuteLoop, ReturnLoop DEF LoopNext

\* The numbers of a list of distinct timers are as many as it is long.
LEMMA CountTimers ==
    ASSUME NEW s \in Seq(Entry), DistinctIds(s)
    PROVE  Cardinality({s[i].id : i \in DOMAIN s}) = Len(s)
<1> DEFINE I == {s[i].id : i \in DOMAIN s}
           f == [i \in DOMAIN s |-> s[i].id]
<1>1. DOMAIN s = 1 .. Len(s) /\ Len(s) \in Nat
  OBVIOUS
<1>2. f \in Bijection(1 .. Len(s), I)
  <2>1. f \in [1 .. Len(s) -> I] /\ \A n \in I : \E i \in 1 .. Len(s) : f[i] = n
    BY <1>1
  <2>2. \A i, j \in 1 .. Len(s) : f[i] = f[j] => i = j
    BY <1>1 DEF DistinctIds
  <2> HIDE DEF f, I
  <2> QED BY <2>1, <2>2 DEF Bijection, Injection, Surjection, IsInjective
<1>3. ExistsBijection(1 .. Len(s), I)
  BY <1>2 DEF ExistsBijection
<1> QED BY <1>1, <1>3, FS_CountingElements

\* Whatever callbacks set and clear, also while those that were taken are being
\* called, the event loop and the binding agree on what is set, nothing is set
\* twice, and no animation frame callback is taken and still requested.
THEOREM TimersDoAgree == LoopSpec => []TimersAgree
<1>1. LoopInv => TimersAgree
  <2> SUFFICES ASSUME LoopInv PROVE TimersAgree
    OBVIOUS
  <2>1. timers \in Seq(Entry) /\ DistinctIds(timers)
    BY DEF LoopInv
  <2>2. \A i \in DOMAIN timers : timers[i].id \in Nat /\ timers[i].kind \in {Timeout, Interval}
    <3>1. \A i \in DOMAIN timers : timers[i] \in Entry
      BY <2>1
    <3> QED BY <3>1 DEF Entry, Kinds
  <2>3. \A k : EntryIds(k) = Ids(timers, k)
    BY <2>2 DEF EntryIds, Ids
  <2>4. EntryIds(Interval) \cup EntryIds(Timeout) = {timers[i].id : i \in DOMAIN timers}
    BY <2>2 DEF EntryIds
  <2>5. Cardinality(EntryIds(Interval) \cup EntryIds(Timeout)) = Len(timers)
    BY <2>1, <2>4, CountTimers
  <2>6. \A i \in DOMAIN frames : <<"frame", frames[i]>> \notin ToSet(taken)
    <3>1. \A i \in DOMAIN frames : frames[i] \in Nat /\ frames[i] \in ToSet(frames)
      BY DEF LoopInv, ToSet
    <3> QED BY <3>1 DEF LoopInv
  <2> QED BY <2>3, <2>5, <2>6 DEF LoopInv, TimersAgree
<1> QED BY <1>1, InitLoop, NextLoop, PTL DEF LoopSpec

-----------------------------------------------------------------------------
(* The tree.                                                               *)

\* Lists of children, and a set with everything that is below a member of it.
Lists(kids) == kids \in [Node -> Seq(Node)]
ClosedUnder(X, kids) == \A m \in X, c \in Node : c \in ToSet(kids[m]) => c \in X

\* One level more.
Wider(X, kids) == X \cup UNION {ToSet(kids[m]) : m \in X}

LEMMA NodeFacts ==
    /\ MaxNode \in Nat /\ Root \in Node /\ NoNode \notin Node
    /\ IsFiniteSet(Node) /\ Cardinality(Node) = MaxNode + 1 /\ Node \subseteq Int
<1>1. MaxNode \in Nat /\ Root \in Node /\ NoNode \notin Node
  BY DomAssumption DEF Node, Root, NoNode
<1>2. Node = 0 .. MaxNode
  BY DEF Node, Root
<1>3. IsFiniteSet(0 .. MaxNode) /\ Cardinality(0 .. MaxNode) = MaxNode + 1
  BY <1>1, FS_Interval
<1> QED BY <1>1, <1>2, <1>3

LEMMA WiderFacts ==
    ASSUME NEW kids, Lists(kids), NEW X \in SUBSET Node
    PROVE  /\ Wider(X, kids) \in SUBSET Node /\ X \subseteq Wider(X, kids)
           /\ \A m \in X : ToSet(kids[m]) \subseteq Wider(X, kids)
           /\ \A Y : X \subseteq Y /\ ClosedUnder(Y, kids) => Wider(X, kids) \subseteq Y
           /\ ClosedUnder(X, kids) => Wider(X, kids) = X
           /\ Wider(X, kids) = X => ClosedUnder(X, kids)
<1>1. \A m \in X : ToSet(kids[m]) \subseteq Node
  BY DEF Lists, ToSet
<1>2. \A x : x \in Wider(X, kids) <=> x \in X \/ \E m \in X : x \in ToSet(kids[m])
  BY DEF Wider
<1> QED BY <1>1, <1>2 DEF ClosedUnder

\* The levels of a branch.
Levels(f, kids, n) ==
    /\ f \in [0 .. MaxNode -> SUBSET Node] /\ f[0] = {n}
    /\ \A i \in 1 .. MaxNode : f[i] = Wider(f[i - 1], kids)

LEMMA BranchLevels ==
    ASSUME NEW kids, Lists(kids), NEW n \in Node
    PROVE  \E f : Levels(f, kids, n) /\ Branch(kids, n) = f[MaxNode]
<1> DEFINE F == [i \in 1 .. MaxNode |-> [X \in SUBSET Node |-> Wider(X, kids)]]
           Is(f) == f = [d \in 0 .. MaxNode |->
                            IF d = 0 THEN {n}
                            ELSE LET up == f[d - 1]
                                 IN  up \cup UNION {ToSet(kids[m]) : m \in up}]
<1>1. MaxNode \in Nat /\ {n} \in SUBSET Node
  BY NodeFacts
<1>2. PICK f : IsRun(f, F, SUBSET Node, {n}, MaxNode)
  <2>1. StepsWithin(F, SUBSET Node, MaxNode)
    BY WiderFacts DEF StepsWithin
  <2> HIDE DEF F
  <2> QED BY <1>1, <2>1, RunExists
<1>3. \A i \in 1 .. MaxNode : i - 1 \in 0 .. MaxNode /\ f[i - 1] \in SUBSET Node
  BY <1>1, <1>2 DEF IsRun
<1>4. \A i \in 1 .. MaxNode : f[i] = Wider(f[i - 1], kids)
  BY <1>2, <1>3 DEF IsRun
<1>5. Is(f)
  <2>1. \A i \in 0 .. MaxNode : i = 0 \/ i \in 1 .. MaxNode
    BY <1>1
  <2> QED BY <1>2, <1>4, <2>1 DEF IsRun, Wider
<1> DEFINE g == CHOOSE h : Is(h)
<1>6. Is(g)
  BY <1>5
<1>7. Branch(kids, n) = g[MaxNode]
  BY DEF Branch
<1> HIDE DEF g
<1>8. g = [d \in 0 .. MaxNode |-> IF d = 0 THEN {n} ELSE Wider(g[d - 1], kids)]
  BY <1>6 DEF Wider
<1> HIDE DEF Is
<1>9. g[0] = {n} /\ \A i \in 1 .. MaxNode : g[i] = Wider(g[i - 1], kids)
  <2>1. 0 \in 0 .. MaxNode /\ \A i \in 1 .. MaxNode : i \in 0 .. MaxNode /\ i # 0
    BY <1>1
  <2> QED BY <1>8, <2>1
<1>10. \A i \in 0 .. MaxNode : g[i] = f[i]
  <2> DEFINE T == {i \in 0 .. MaxNode : g[i] = f[i]}
  <2>1. 0 \in T
    <3>1. f[0] = {n} /\ 0 \in 0 .. MaxNode
      BY <1>1, <1>2 DEF IsRun
    <3> QED BY <1>9, <3>1
  <2>2. \A i \in 1 .. MaxNode : i - 1 \in T => i \in T
    BY <1>1, <1>4, <1>9
  <2> HIDE DEF T
  <2>3. \A i \in 0 .. MaxNode : i \in T
    BY <1>1, <2>1, <2>2, NumberInduction
  <2> QED BY <2>3 DEF T
<1>11. f \in [0 .. MaxNode -> SUBSET Node] /\ f[0] = {n} /\ MaxNode \in 0 .. MaxNode
  BY <1>1, <1>2 DEF IsRun
<1>12. Branch(kids, n) = f[MaxNode]
  BY <1>7, <1>10, <1>11
<1> HIDE DEF F
<1> QED BY <1>4, <1>11, <1>12 DEF Levels

\* A branch is the least set with its node and everything below a member.
LEMMA BranchLeast ==
    ASSUME NEW kids, Lists(kids), NEW n \in Node
    PROVE  /\ Branch(kids, n) \in SUBSET Node /\ n \in Branch(kids, n)
           /\ ClosedUnder(Branch(kids, n), kids)
           /\ \A X : n \in X /\ ClosedUnder(X, kids) => Branch(kids, n) \subseteq X
<1>1. PICK f : Levels(f, kids, n) /\ Branch(kids, n) = f[MaxNode]
  BY BranchLevels
<1>2. MaxNode \in Nat /\ \A i \in 1 .. MaxNode : i - 1 \in 0 .. MaxNode /\ i \in 0 .. MaxNode
  BY NodeFacts
<1>3. \A i \in 0 .. MaxNode : f[i] \in SUBSET Node
  BY <1>1 DEF Levels
<1>4. \A i \in 1 .. MaxNode : f[i] = Wider(f[i - 1], kids) /\ f[i - 1] \in SUBSET Node
  BY <1>1, <1>2, <1>3 DEF Levels
<1>5. f[0] = {n} /\ 0 \in 0 .. MaxNode /\ MaxNode \in 0 .. MaxNode
  BY <1>1, <1>2 DEF Levels
<1>6. n \in f[MaxNode]
  <2> DEFINE T == {i \in 0 .. MaxNode : n \in f[i]}
  <2>1. 0 \in T
    BY <1>5
  <2>2. \A i \in 1 .. MaxNode : i - 1 \in T => i \in T
    BY <1>2, <1>4, WiderFacts
  <2> HIDE DEF T
  <2>3. \A i \in 0 .. MaxNode : i \in T
    BY <1>2, <2>1, <2>2, NumberInduction
  <2> QED BY <1>5, <2>3 DEF T
<1>7. ASSUME NEW X, n \in X, ClosedUnder(X, kids) PROVE f[MaxNode] \subseteq X
  <2> DEFINE T == {i \in 0 .. MaxNode : f[i] \subseteq X}
  <2>1. 0 \in T
    BY <1>5, <1>7
  <2>2. \A i \in 1 .. MaxNode : i - 1 \in T => i \in T
    BY <1>2, <1>4, <1>7, WiderFacts
  <2> HIDE DEF T
  <2>3. \A i \in 0 .. MaxNode : i \in T
    BY <1>2, <2>1, <2>2, NumberInduction
  <2> QED BY <1>5, <2>3 DEF T
<1>8. ClosedUnder(f[MaxNode], kids)
  <2> DEFINE T == {i \in 0 .. MaxNode : ClosedUnder(f[i], kids) \/ Cardinality(f[i]) >= i + 1}
  <2>1. 0 \in T
    <3>1. Cardinality({n}) = 1
      BY FS_Singleton
    <3> QED BY <1>5, <3>1
  <2>2. ASSUME NEW i \in 1 .. MaxNode, i - 1 \in T PROVE i \in T
    <3>1. CASE ClosedUnder(f[i - 1], kids)
      BY <1>2, <1>4, <3>1, WiderFacts
    <3>2. CASE ~ ClosedUnder(f[i - 1], kids)
      <4>1. f[i - 1] \subseteq f[i] /\ f[i] # f[i - 1]
        BY <1>4, <3>2, WiderFacts
      <4>2. IsFiniteSet(f[i])
        BY <1>2, <1>3, NodeFacts, FS_Subset
      <4>3. /\ IsFiniteSet(f[i - 1]) /\ Cardinality(f[i - 1]) <= Cardinality(f[i])
            /\ Cardinality(f[i - 1]) # Cardinality(f[i])
        BY <4>1, <4>2, FS_Subset
      <4>4. Cardinality(f[i]) \in Nat /\ Cardinality(f[i - 1]) \in Nat
        BY <4>2, <4>3, FS_CardinalityType
      <4>5. Cardinality(f[i - 1]) >= i
        BY <2>2, <3>2, <1>2
      <4> QED BY <1>2, <4>3, <4>4, <4>5
    <3> QED BY <3>1, <3>2
  <2> HIDE DEF T
  <2>3. \A i \in 0 .. MaxNode : i \in T
    BY <1>2, <2>1, <2>2, NumberInduction
  <2>4. ClosedUnder(f[MaxNode], kids) \/ Cardinality(f[MaxNode]) >= MaxNode + 1
    BY <1>5, <2>3 DEF T
  <2>5. ASSUME Cardinality(f[MaxNode]) >= MaxNode + 1 PROVE ClosedUnder(f[MaxNode], kids)
    <3> DEFINE A == f[MaxNode]
    <3>1. A \in SUBSET Node
      BY <1>3, <1>5
    <3> HIDE DEF A
    <3>2. /\ IsFiniteSet(A) /\ Cardinality(A) <= Cardinality(Node)
          /\ Cardinality(Node) = Cardinality(A) => Node = A
      BY <3>1, NodeFacts, FS_Subset
    <3>3. Cardinality(A) \in Nat /\ Cardinality(Node) = MaxNode + 1
      BY <3>2, NodeFacts, FS_CardinalityType
    <3>4. A = Node
      BY <1>2, <2>5, <3>2, <3>3 DEF A
    <3> QED BY <3>4 DEF A, ClosedUnder
  <2> QED BY <2>4, <2>5
<1> QED BY <1>1, <1>3, <1>5, <1>6, <1>7, <1>8

\* The parents, and lists that agree with them, in which none has a node twice.
\* The document has no parent; there may be cycles outside of it.
Parents(up) == up \in [Node -> Node \cup {NoNode}]
NoCycle(up) == \A X \in SUBSET Node : X # {} => \E x \in X : up[x] \notin X
Agree(kids, up) == \A n, c \in Node : c \in ToSet(kids[n]) <=> up[c] = n
OnceEach(kids) == \A n \in Node : IsInjective(kids[n])

Tree(kids, up) ==
    /\ Lists(kids) /\ Parents(up) /\ Agree(kids, up) /\ OnceEach(kids)
    /\ up[Root] = NoNode

\* Below a node is what has a parent there. A node below its child is on a
\* cycle, and the document is none.
LEMMA BranchInTree ==
    ASSUME NEW kids, NEW up, Tree(kids, up), NEW n \in Node
    PROVE  /\ \A x \in Branch(kids, n) : x = n \/ up[x] \in Branch(kids, n)
           /\ \A c \in ToSet(kids[n]) :
                 n \in Branch(kids, c) => n \notin Branch(kids, Root) /\ ~ NoCycle(up)
<1>0. Lists(kids) /\ Agree(kids, up) /\ up[Root] = NoNode /\ Root \in Node /\ NoNode \notin Node
  BY NodeFacts DEF Tree
<1>1. ASSUME NEW m \in Node, NEW x \in Branch(kids, m)
      PROVE  x = m \/ up[x] \in Branch(kids, m)
  <2> DEFINE D == Branch(kids, m)
             X == {y \in D : y = m \/ up[y] \in D}
  <2>1. D \in SUBSET Node /\ m \in D /\ ClosedUnder(D, kids)
    BY <1>0, BranchLeast
  <2>2. \A Y : m \in Y /\ ClosedUnder(Y, kids) => D \subseteq Y
    BY <1>0, BranchLeast
  <2>22. x \in D
    BY <1>1
  <2> HIDE DEF D
  <2>3. m \in X
    BY <2>1
  <2>4. ClosedUnder(X, kids)
    BY <1>0, <2>1 DEF ClosedUnder, Agree
  <2>5. D \subseteq X
    BY <2>2, <2>3, <2>4
  <2> QED BY <2>5, <2>22 DEF D
<1>2. ASSUME NEW c \in ToSet(kids[n]), n \in Branch(kids, c)
      PROVE  n \notin Branch(kids, Root) /\ ~ NoCycle(up)
  <2> DEFINE D == Branch(kids, c)
             W == Branch(kids, Root)
  <2>1. c \in Node
    BY <1>0 DEF Lists, ToSet
  <2>2. D \in SUBSET Node /\ c \in D /\ n \in D
    BY <1>0, <1>2, <2>1, BranchLeast
  <2>3. \A x \in D : x = c \/ up[x] \in D
    BY <1>1, <2>1
  <2>4. up[c] = n
    BY <1>0, <1>2, <2>1 DEF Agree
  <2>5. /\ W \in SUBSET Node /\ Root \in W /\ ClosedUnder(W, kids)
        /\ \A X : Root \in X /\ ClosedUnder(X, kids) => W \subseteq X
    BY <1>0, BranchLeast
  <2> HIDE DEF D, W
  <2>6. \A x \in D : up[x] \in D
    BY <2>2, <2>3, <2>4
  <2>7. ~ NoCycle(up)
    BY <2>2, <2>6 DEF NoCycle
  <2>8. Root \in W \ D
    BY <1>0, <2>2, <2>5, <2>6
  <2>9. ClosedUnder(W \ D, kids)
    BY <1>0, <2>5, <2>6 DEF ClosedUnder, Agree
  <2>10. n \notin W
    BY <2>2, <2>5, <2>8, <2>9
  <2> QED BY <2>7, <2>10 DEF W
<1> QED BY <1>1, <1>2

\* The children of n in k are those in kids and C, and C is nowhere else.
GivenTo(k, kids, n, C) ==
    \A m \in Node : ToSet(k[m]) = IF m = n THEN ToSet(kids[m]) \cup C ELSE ToSet(kids[m]) \ C

\* The nodes C are in a closed set in which n is not.
Apart(C, D, kids, n) == C \subseteq D /\ ClosedUnder(D, kids) /\ n \notin D

\* The nodes C go to n.
LEMMA MovedTree ==
    ASSUME NEW kids, NEW up, Tree(kids, up), NEW n \in Node, NEW C, NEW D \in SUBSET Node,
           Root \notin C, NEW k, Lists(k), OnceEach(k), GivenTo(k, kids, n, C)
    PROVE  LET p == [x \in Node |-> IF x \in C THEN n ELSE up[x]]
           IN  Tree(k, p) /\ (Apart(C, D, kids, n) /\ NoCycle(up) => NoCycle(p))
<1> DEFINE p == [x \in Node |-> IF x \in C THEN n ELSE up[x]]
<1>0. Lists(kids) /\ Agree(kids, up) /\ Parents(up) /\ up[Root] = NoNode
  BY DEF Tree
<1>1. Parents(p) /\ p[Root] = NoNode
  BY <1>0, NodeFacts DEF Parents
<1>2. \A x \in Node : p[x] = IF x \in C THEN n ELSE up[x]
  OBVIOUS
<1> HIDE DEF p
<1>3. Agree(k, p)
  <2> SUFFICES ASSUME NEW m \in Node, NEW c \in Node PROVE c \in ToSet(k[m]) <=> p[c] = m
    BY DEF Agree
  <2>1. c \in ToSet(kids[m]) <=> up[c] = m
    BY <1>0 DEF Agree
  <2>2. c \in ToSet(k[m]) <=> c \in (IF m = n THEN ToSet(kids[m]) \cup C ELSE ToSet(kids[m]) \ C)
    BY DEF GivenTo
  <2>3. p[c] = IF c \in C THEN n ELSE up[c]
    BY <1>2
  <2> QED BY <2>1, <2>2, <2>3
<1>4. ASSUME Apart(C, D, kids, n), NoCycle(up) PROVE NoCycle(p)
  <2> SUFFICES ASSUME NEW X \in SUBSET Node, X # {}, \A x \in X : p[x] \in X
               PROVE  FALSE
    BY DEF NoCycle
  <2>1. CASE X \cap C = {}
    BY <1>2, <1>4, <2>1 DEF NoCycle
  <2>2. CASE X \cap C # {}
    <3> DEFINE Y == X \ D
    <3>1. n \in Y /\ Y \in SUBSET Node
      BY <1>2, <1>4, <2>2 DEF Apart
    <3>2. ASSUME NEW y \in Y PROVE up[y] \in Y
      <4>1. up[y] \in X /\ y \in Node /\ y \notin D
        BY <1>2, <1>4, <3>2 DEF Apart
      <4>2. y \in ToSet(kids[up[y]])
        BY <1>0, <4>1 DEF Agree
      <4> QED BY <1>4, <4>1, <4>2 DEF ClosedUnder, Apart
    <3> QED BY <1>4, <3>1, <3>2 DEF NoCycle
  <2> QED BY <2>1, <2>2
<1> QED BY <1>1, <1>3, <1>4 DEF Tree, p

\* The nodes G are taken out of the lists.
LEMMA UnlinkedTree ==
    ASSUME NEW kids, NEW up, Tree(kids, up), NEW G,
           NEW k, Lists(k), OnceEach(k),
           \A m \in Node : ToSet(k[m]) = ToSet(kids[m]) \ G
    PROVE  LET p == [x \in Node |-> IF x \in G THEN NoNode ELSE up[x]]
           IN  Tree(k, p) /\ (NoCycle(up) => NoCycle(p))
<1> DEFINE p == [x \in Node |-> IF x \in G THEN NoNode ELSE up[x]]
<1>0. Lists(kids) /\ Agree(kids, up) /\ Parents(up) /\ up[Root] = NoNode
  BY DEF Tree
<1>1. Parents(p) /\ p[Root] = NoNode
  BY <1>0, NodeFacts DEF Parents
<1>2. \A x \in Node : p[x] = IF x \in G THEN NoNode ELSE up[x]
  OBVIOUS
<1> HIDE DEF p
<1>3. Agree(k, p)
  BY <1>0, <1>2, NodeFacts DEF Agree
<1>4. NoCycle(up) => NoCycle(p)
  BY <1>2, NodeFacts DEF NoCycle
<1> QED BY <1>1, <1>3, <1>4 DEF Tree, p

LEMMA PositionFacts ==
    ASSUME NEW s \in Seq(Node), NEW x \in ToSet(s)
    PROVE  PositionOf(s, x) \in DOMAIN s /\ s[PositionOf(s, x)] = x
BY DEF PositionOf, ToSet

LEMMA DetachedFacts ==
    ASSUME Tree(children, parent), NEW c \in Node
    PROVE  /\ Lists(Detached(c)) /\ OnceEach(Detached(c))
           /\ \A m \in Node : ToSet(Detached(c)[m]) = ToSet(children[m]) \ {c}
<1>0. Lists(children) /\ Parents(parent) /\ Agree(children, parent) /\ OnceEach(children)
  BY DEF Tree
<1>1. \A m \in Node : parent[c] # m => c \notin ToSet(children[m])
  BY <1>0 DEF Agree
<1>2. CASE parent[c] = NoNode
  BY <1>0, <1>1, <1>2, NodeFacts DEF Detached
<1>3. CASE parent[c] # NoNode
  <2> DEFINE q == parent[c]
             s == children[q]
             r == Retained(s, Node \ {c})
  <2>1. q \in Node
    BY <1>0, <1>3 DEF Parents
  <2>2. s \in Seq(Node) /\ IsInjective(s)
    BY <1>0, <2>1 DEF Lists, OnceEach
  <2>3. Detached(c) = [children EXCEPT ![q] = r]
    BY <1>0, <1>3, <2>1 DEF Detached, Lists
  <2> HIDE DEF q, s
  <2>4. r \in Seq(Node) /\ ToSet(r) = ToSet(s) \cap (Node \ {c}) /\ (IsInjective(s) => IsInjective(r))
    BY <2>2, RetainedMembers
  <2> HIDE DEF r
  <2>5. /\ Lists(Detached(c)) /\ OnceEach(Detached(c))
        /\ \A m \in Node : Detached(c)[m] = IF m = q THEN r ELSE children[m]
    <3> DEFINE k == Detached(c)
    <3>1. k = [children EXCEPT ![q] = r] /\ IsInjective(r)
      BY <2>2, <2>3, <2>4
    <3> HIDE DEF k
    <3>2. Lists(k) /\ OnceEach(k) /\ \A m \in Node : k[m] = IF m = q THEN r ELSE children[m]
      BY <1>0, <2>1, <2>4, <3>1 DEF Lists, OnceEach
    <3> QED BY <3>2 DEF k
  <2>6. ToSet(s) \subseteq Node
    BY <2>2 DEF ToSet
  <2>7. ToSet(r) = ToSet(s) \ {c}
    BY <2>4, <2>6
  <2>8. s = children[q] /\ q = parent[c]
    BY DEF s, q
  <2> QED BY <1>1, <2>5, <2>7, <2>8
<1> QED BY <1>2, <1>3

LEMMA PlacedFacts ==
    ASSUME Tree(children, parent), NEW c \in Node, NEW n \in Node, NEW ref
    PROVE  /\ Lists(Placed(n, c, ref)) /\ OnceEach(Placed(n, c, ref))
           /\ GivenTo(Placed(n, c, ref), children, n, {c})
<1> DEFINE k == Detached(c)
           s == k[n]
           j == IF ref \in ToSet(s) THEN PositionOf(s, ref) ELSE Len(s) + 1
           r == InsertAt(s, j, c)
<1>1. Lists(k) /\ OnceEach(k) /\ \A m \in Node : ToSet(k[m]) = ToSet(children[m]) \ {c}
  BY DetachedFacts
<1>2. Placed(n, c, ref) = [k EXCEPT ![n] = r]
  BY <1>1 DEF Placed, Lists
<1> HIDE DEF k
<1>3. s \in Seq(Node) /\ IsInjective(s) /\ ToSet(s) = ToSet(children[n]) \ {c}
  BY <1>1 DEF Lists, OnceEach
<1> HIDE DEF s
<1>4. j \in 1 .. Len(s) + 1
  <2>1. Len(s) \in Nat /\ DOMAIN s = 1 .. Len(s)
    BY <1>3
  <2>2. ref \in ToSet(s) => PositionOf(s, ref) \in DOMAIN s
    BY <1>3, PositionFacts
  <2> QED BY <2>1, <2>2
<1> HIDE DEF j
<1>5. c \notin ToSet(s)
  BY <1>3
<1>6. r \in Seq(Node) /\ ToSet(r) = ToSet(s) \cup {c} /\ IsInjective(r)
  BY <1>3, <1>4, <1>5, InsertAtSet
<1> HIDE DEF r
<1>7. /\ Lists(Placed(n, c, ref)) /\ OnceEach(Placed(n, c, ref))
      /\ \A m \in Node : Placed(n, c, ref)[m] = IF m = n THEN r ELSE k[m]
  <2> DEFINE p == Placed(n, c, ref)
  <2>1. p = [k EXCEPT ![n] = r]
    BY <1>2
  <2> HIDE DEF p
  <2>2. Lists(p) /\ OnceEach(p) /\ \A m \in Node : p[m] = IF m = n THEN r ELSE k[m]
    BY <1>1, <1>6, <2>1 DEF Lists, OnceEach
  <2> QED BY <2>2 DEF p
<1> QED BY <1>1, <1>3, <1>6, <1>7 DEF GivenTo

LEMMA TakenOutFacts ==
    ASSUME Tree(children, parent), NEW n \in Node, NEW c \in ToSet(children[n])
    PROVE  /\ Lists(TakenOut(n, c)) /\ OnceEach(TakenOut(n, c))
           /\ \A m \in Node : ToSet(TakenOut(n, c)[m]) = ToSet(children[m]) \ {c}
<1> DEFINE s == children[n]
           j == PositionOf(s, c)
           r == RemoveAt(s, j)
<1>0. Lists(children) /\ Agree(children, parent) /\ OnceEach(children)
  BY DEF Tree
<1>1. s \in Seq(Node) /\ IsInjective(s) /\ c \in ToSet(s)
  BY <1>0 DEF Lists, OnceEach
<1>2. TakenOut(n, c) = [children EXCEPT ![n] = r]
  BY <1>0 DEF TakenOut, Lists
<1>3. c \in Node /\ \A m \in Node : m # n => c \notin ToSet(children[m])
  <2>1. c \in Node
    BY <1>1 DEF ToSet
  <2> QED BY <1>0, <2>1 DEF Agree
<1>33. s = children[n]
  OBVIOUS
<1> HIDE DEF s
<1>4. j \in DOMAIN s /\ s[j] = c
  BY <1>1, PositionFacts
<1> HIDE DEF j
<1>5. \A a, b \in DOMAIN s : s[a] = s[b] => a = b
  BY <1>1 DEF IsInjective
<1>6. /\ ToSet(r) = ToSet(s) \ {s[j]}
      /\ \A a, b \in DOMAIN r : r[a] = r[b] => a = b
  BY <1>1, <1>4, <1>5, RemoveAtSet
<1>7. r \in Seq(Node)
  BY <1>1, <1>4, RemoveAtProperties
<1> HIDE DEF r
<1>8. IsInjective(r)
  BY <1>6 DEF IsInjective
<1>9. /\ Lists(TakenOut(n, c)) /\ OnceEach(TakenOut(n, c))
      /\ \A m \in Node : TakenOut(n, c)[m] = IF m = n THEN r ELSE children[m]
  <2> DEFINE p == TakenOut(n, c)
  <2>1. p = [children EXCEPT ![n] = r]
    BY <1>2
  <2> HIDE DEF p
  <2>2. Lists(p) /\ OnceEach(p) /\ \A m \in Node : p[m] = IF m = n THEN r ELSE children[m]
    BY <1>0, <1>7, <1>8, <2>1 DEF Lists, OnceEach
  <2> QED BY <2>2 DEF p
<1> QED BY <1>3, <1>33, <1>4, <1>6, <1>9

LEMMA SetOneMember ==
    ASSUME NEW s \in Seq(Node), IsInjective(s), NEW i \in DOMAIN s, NEW c \in Node, c \notin ToSet(s)
    PROVE  LET r == [s EXCEPT ![i] = c]
           IN  r \in Seq(Node) /\ ToSet(r) = (ToSet(s) \ {s[i]}) \cup {c} /\ IsInjective(r)
<1> DEFINE r == [s EXCEPT ![i] = c]
<1>1. /\ r \in Seq(Node) /\ DOMAIN r = DOMAIN s
      /\ \A j \in DOMAIN s : r[j] = IF j = i THEN c ELSE s[j]
  OBVIOUS
<1> HIDE DEF r
<1>2. \A j, k \in DOMAIN s : s[j] # c /\ (s[j] = s[k] => j = k)
  BY DEF ToSet, IsInjective
<1>3. IsInjective(r)
  BY <1>1, <1>2 DEF IsInjective
<1>4. ToSet(r) = (ToSet(s) \ {s[i]}) \cup {c}
  BY <1>1, <1>2 DEF ToSet
<1> QED BY <1>1, <1>3, <1>4 DEF r

\* Nothing is where no node was made yet.
Fresh(kids, up, k) == \A m \in Node : m > k => up[m] = NoNode /\ ToSet(kids[m]) = {}

TreeInv ==
    /\ made \in 0 .. MaxNode /\ Parents(parent)
    /\ "halfRemoved" \notin odd => Tree(children, parent) /\ Fresh(children, parent, made)
    /\ {"halfRemoved", "cycle"} \cap odd = {} => NoCycle(parent)

LEMMA MadeNodes ==
    ASSUME made \in 0 .. MaxNode
    PROVE  Made \subseteq Node /\ made \in Nat /\ \A m \in Made : m <= made
BY DomAssumption DEF Made, Node, Root

\* A node is put below another one.
LEMMA PlaceStep ==
    ASSUME Tree(children, parent), Fresh(children, parent, made), made \in Nat, made' \in Nat,
           made <= made', NEW n \in Node, NEW c \in Node, NEW ref, c # Root,
           n <= made', c <= made', Adopt(c, n), children' = Placed(n, c, ref)
    PROVE  /\ Tree(children', parent') /\ Fresh(children', parent', made')
           /\ NoCycle(parent) /\ n \notin Subtree(c) => NoCycle(parent')
<1>0. Lists(children) /\ Parents(parent)
  BY DEF Tree
<1> DEFINE D == Branch(children, c)
<1>1. D \in SUBSET Node /\ c \in D /\ ClosedUnder(D, children)
  BY <1>0, BranchLeast
<1>11. D = Subtree(c)
  BY DEF Subtree
<1> HIDE DEF D
<1>2. /\ Lists(children') /\ OnceEach(children')
      /\ GivenTo(children', children, n, {c})
  BY PlacedFacts
<1>3. parent' = [x \in Node |-> IF x \in {c} THEN n ELSE parent[x]]
  BY <1>0 DEF Adopt, Parents
<1>4. Root \notin {c} /\ {c} \subseteq D
  BY <1>1
<1>5. /\ Tree(children', parent')
      /\ NoCycle(parent) /\ n \notin Subtree(c) => NoCycle(parent')
  <2> DEFINE C == {c}
  <2>1. GivenTo(children', children, n, C)
    BY <1>2
  <2>2. C \subseteq D /\ Root \notin C /\ parent' = [x \in Node |-> IF x \in C THEN n ELSE parent[x]]
    BY <1>3, <1>4
  <2> HIDE DEF C
  <2> DEFINE q == [x \in Node |-> IF x \in C THEN n ELSE parent[x]]
  <2>3. Tree(children', q) /\ (Apart(C, D, children, n) /\ NoCycle(parent) => NoCycle(q))
    BY <1>1, <1>2, <2>1, <2>2, MovedTree
  <2>4. parent' = q
    BY <2>2
  <2> HIDE DEF q
  <2>5. n \notin Subtree(c) => Apart(C, D, children, n)
    BY <1>1, <1>11, <2>2 DEF Apart
  <2> QED BY <2>3, <2>4, <2>5
<1>6. \A m \in Node : m > made' => m # n /\ m # c /\ m > made
  BY NodeFacts
<1>7. \A m \in Node : parent'[m] = IF m = c THEN n ELSE parent[m]
  BY <1>3
<1>8. Fresh(children', parent', made')
  BY <1>2, <1>6, <1>7 DEF Fresh, GivenTo
<1> QED BY <1>5, <1>8

\* Nodes are taken out of the lists and lose their parents.
LEMMA UnlinkStep ==
    ASSUME Tree(children, parent), Fresh(children, parent, made), made' = made, NEW c \in Node,
           Adopt(c, NoNode), Lists(children'), OnceEach(children'),
           \A m \in Node : ToSet(children'[m]) = ToSet(children[m]) \ {c}
    PROVE  /\ Tree(children', parent') /\ Fresh(children', parent', made')
           /\ NoCycle(parent) => NoCycle(parent')
<1>1. parent' = [x \in Node |-> IF x \in {c} THEN NoNode ELSE parent[x]]
  BY DEF Adopt, Tree, Parents
<1>2. Tree(children', parent') /\ (NoCycle(parent) => NoCycle(parent'))
  <2> DEFINE C == {c}
  <2>1. \A m \in Node : ToSet(children'[m]) = ToSet(children[m]) \ C
    OBVIOUS
  <2>2. parent' = [x \in Node |-> IF x \in C THEN NoNode ELSE parent[x]]
    BY <1>1
  <2> HIDE DEF C
  <2> DEFINE q == [x \in Node |-> IF x \in C THEN NoNode ELSE parent[x]]
  <2>3. Tree(children', q) /\ (NoCycle(parent) => NoCycle(q))
    BY <2>1, UnlinkedTree
  <2>4. parent' = q
    BY <2>2
  <2> HIDE DEF q
  <2> QED BY <2>3, <2>4
<1>3. \A m \in Node : parent'[m] = IF m = c THEN NoNode ELSE parent[m]
  BY <1>1
<1>4. Fresh(children', parent', made')
  BY <1>3 DEF Fresh
<1> QED BY <1>2, <1>4

\* A new node has nothing below it.
LEMMA FreshBranch ==
    ASSUME Lists(children), NEW c \in Node, ToSet(children[c]) = {}
    PROVE  Subtree(c) \subseteq {c}
<1>1. c \in {c} /\ ClosedUnder({c}, children)
  BY DEF ClosedUnder
<1> QED BY <1>1, BranchLeast DEF Subtree

LEMMA NewNodeStep ==
    ASSUME Tree(children, parent), Fresh(children, parent, made), made \in 0 .. MaxNode,
           NEW n \in Made, NEW ref, NEW k, Allocate(<<k>>),
           Adopt(made', n), children' = Placed(n, made', ref)
    PROVE  /\ Tree(children', parent') /\ Fresh(children', parent', made')
           /\ NoCycle(parent) => NoCycle(parent')
<1>1. made' = made + 1 /\ made + 1 <= MaxNode
  BY DEF Allocate
<1>2. made \in Nat /\ made + 1 \in Node /\ n \in Node /\ n <= made /\ made + 1 # Root /\ n # made + 1
  BY <1>1, MadeNodes, NodeFacts DEF Node, Root
<1> DEFINE c == made + 1
<1>3. c \in Node /\ c > made /\ c # Root /\ n <= c /\ n # c /\ made' = c /\ c <= made' /\ made <= made'
  BY <1>1, <1>2, NodeFacts
<1>4. Adopt(c, n) /\ children' = Placed(n, c, ref)
  BY <1>1
<1> HIDE DEF c
<1>5. ToSet(children[c]) = {}
  BY <1>3 DEF Fresh
<1>6. n \notin Subtree(c)
  BY <1>3, <1>5, FreshBranch DEF Tree
<1>7. made' \in Nat /\ n <= made'
  BY <1>2, <1>3 DEF c
<1> QED BY <1>2, <1>3, <1>4, <1>6, <1>7, PlaceStep

LEMMA ReparentStep ==
    ASSUME Tree(children, parent), Fresh(children, parent, made), made \in 0 .. MaxNode,
           NEW n \in Made, NEW to \in Made, ReparentChildren(n, to)
    PROVE  /\ Tree(children', parent') /\ Fresh(children', parent', made')
           /\ NoCycle(parent) => NoCycle(parent')
<1>0. /\ Lists(children) /\ Parents(parent) /\ Agree(children, parent) /\ OnceEach(children)
      /\ parent[Root] = NoNode
  BY DEF Tree
<1>1. /\ to \notin Subtree(n) /\ made' = made
      /\ children' = [children EXCEPT ![n] = <<>>, ![to] = @ \o children[n]]
      /\ parent' = [c \in Node |-> IF parent[c] = n THEN to ELSE parent[c]]
  BY DEF ReparentChildren, NoneMade
<1>2. n \in Node /\ to \in Node /\ n <= made /\ to <= made /\ made \in Nat
  BY MadeNodes
<1> DEFINE D == Branch(children, n)
           C == ToSet(children[n])
           s == children[to] \o children[n]
<1>3. D \in SUBSET Node /\ n \in D /\ ClosedUnder(D, children) /\ to \notin D
  BY <1>0, <1>1, <1>2, BranchLeast DEF Subtree
<1> HIDE DEF D
<1>4. C \subseteq Node
  BY <1>0, <1>2 DEF Lists, ToSet
<1>5. C \subseteq D
  BY <1>3, <1>4 DEF ClosedUnder
<1>6. \A c \in Node : c \in C <=> parent[c] = n
  BY <1>0, <1>2 DEF Agree
<1>7. Root \notin C
  BY <1>0, <1>2, <1>6, NodeFacts
<1>8. to # n
  BY <1>3
<1>9. ToSet(children[to]) \cap C = {}
  BY <1>0, <1>2, <1>4, <1>6, <1>8 DEF Agree
<1>10. s \in Seq(Node) /\ ToSet(s) = ToSet(children[to]) \cup C /\ IsInjective(s)
  <2>1. /\ children[to] \in Seq(Node) /\ children[n] \in Seq(Node)
        /\ IsInjective(children[to]) /\ IsInjective(children[n])
    BY <1>0, <1>2 DEF Lists, OnceEach
  <2> QED BY <1>9, <2>1, ConcatSet
<1>11. \A m \in Node : children'[m] = IF m = to THEN s ELSE IF m = n THEN <<>> ELSE children[m]
  BY <1>0, <1>1, <1>2, <1>8 DEF Lists
<1>12. children' \in [Node -> Seq(Node)]
  <2>1. children' \in [Node -> Seq(Node)] <=> \A m \in Node : children'[m] \in Seq(Node)
    BY <1>0, <1>1 DEF Lists
  <2>2. <<>> \in Seq(Node) /\ \A m \in Node : children[m] \in Seq(Node)
    BY <1>0 DEF Lists
  <2> HIDE DEF s
  <2> QED BY <1>10, <1>11, <2>1, <2>2
<1> HIDE DEF s
<1>13. IsInjective(<<>>) /\ ToSet(<<>>) = {}
  BY DEF IsInjective, ToSet
<1>14. Lists(children') /\ OnceEach(children')
  BY <1>0, <1>10, <1>11, <1>12, <1>13 DEF Lists, OnceEach
<1>15. GivenTo(children', children, to, C)
  <2> SUFFICES ASSUME NEW m \in Node
               PROVE  ToSet(children'[m]) = IF m = to THEN ToSet(children[m]) \cup C ELSE ToSet(children[m]) \ C
    BY DEF GivenTo
  <2>1. CASE m = to
    BY <1>10, <1>11, <2>1
  <2>2. CASE m = n
    BY <1>8, <1>11, <1>13, <2>2
  <2>3. CASE m # n /\ m # to
    <3>1. ToSet(children[m]) \cap C = {}
      BY <1>0, <1>2, <1>4, <1>6, <2>3 DEF Agree
    <3> QED BY <1>11, <2>3, <3>1
  <2> QED BY <2>1, <2>2, <2>3
<1> HIDE DEF C
<1>16. parent' = [x \in Node |-> IF x \in C THEN to ELSE parent[x]]
  BY <1>1, <1>6
<1>17. Tree(children', parent') /\ (NoCycle(parent) => NoCycle(parent'))
  <2> DEFINE q == [x \in Node |-> IF x \in C THEN to ELSE parent[x]]
  <2>1. Tree(children', q) /\ (Apart(C, D, children, to) /\ NoCycle(parent) => NoCycle(q))
    BY <1>2, <1>3, <1>7, <1>14, <1>15, MovedTree
  <2>2. parent' = q
    BY <1>16
  <2> HIDE DEF q
  <2>3. Apart(C, D, children, to)
    BY <1>3, <1>5 DEF Apart
  <2> QED BY <2>1, <2>2, <2>3
<1>18. \A m \in Node : parent'[m] = IF m \in C THEN to ELSE parent[m]
  BY <1>16
<1>19. Fresh(children', parent', made')
  <2> SUFFICES ASSUME NEW m \in Node, m > made PROVE parent'[m] = NoNode /\ ToSet(children'[m]) = {}
    BY <1>1 DEF Fresh
  <2>1. parent[m] = NoNode /\ ToSet(children[m]) = {}
    BY DEF Fresh
  <2>2. m # to /\ m \notin C
    BY <1>2, <1>6, <2>1, NodeFacts
  <2> QED BY <1>15, <1>18, <2>1, <2>2 DEF GivenTo
<1> QED BY <1>17, <1>19

LEMMA ReplaceStep ==
    ASSUME Tree(children, parent), Fresh(children, parent, made), made \in 0 .. MaxNode,
           NEW n \in Made, NEW c \in Made, NEW old \in Made, ReplaceChild(n, c, old)
    PROVE  /\ Tree(children', parent') /\ Fresh(children', parent', made')
           /\ NoCycle(parent) => NoCycle(parent')
<1>0. /\ Lists(children) /\ Parents(parent) /\ Agree(children, parent) /\ OnceEach(children)
  BY DEF Tree
<1> DEFINE rest == Detached(c)
           q == rest[n]
           i == PositionOf(q, old)
           s == [q EXCEPT ![i] = c]
           k == Placed(n, c, NoNode)
           D == Branch(children, c)
<1>1. /\ c # Root /\ c # old /\ n \notin Subtree(c) /\ old \in ToSet(children[n]) /\ made' = made
      /\ children' = [rest EXCEPT ![n] = s]
      /\ parent' = [parent EXCEPT ![c] = n, ![old] = NoNode]
  BY DEF ReplaceChild, NotAncestorOf, IsAncestorOf, NoneMade
<1>2. n \in Node /\ c \in Node /\ old \in Node /\ n <= made /\ c <= made /\ made \in Nat
  BY MadeNodes
<1>3. /\ Lists(rest) /\ OnceEach(rest)
      /\ \A m \in Node : ToSet(rest[m]) = ToSet(children[m]) \ {c}
  BY <1>2, DetachedFacts
<1>4. Lists(k) /\ OnceEach(k) /\ GivenTo(k, children, n, {c})
  BY <1>2, PlacedFacts
<1>5. D \in SUBSET Node /\ c \in D /\ ClosedUnder(D, children) /\ n \notin D
  BY <1>0, <1>1, <1>2, BranchLeast DEF Subtree
<1> HIDE DEF D, k, rest
<1>6. q \in Seq(Node) /\ IsInjective(q) /\ ToSet(q) = ToSet(children[n]) \ {c}
  BY <1>2, <1>3 DEF Lists, OnceEach
<1> HIDE DEF q
<1>7. i \in DOMAIN q /\ q[i] = old
  BY <1>1, <1>6, PositionFacts
<1> HIDE DEF i
<1>8. s \in Seq(Node) /\ ToSet(s) = (ToSet(q) \ {q[i]}) \cup {c} /\ IsInjective(s)
  <2>1. c \notin ToSet(q)
    BY <1>6
  <2> QED BY <1>2, <1>6, <1>7, <2>1, SetOneMember
<1> HIDE DEF s
<1>9. Lists(children') /\ OnceEach(children') /\ \A m \in Node : children'[m] = IF m = n THEN s ELSE rest[m]
  BY <1>1, <1>2, <1>3, <1>8 DEF Lists, OnceEach
<1> DEFINE p == [x \in Node |-> IF x \in {c} THEN n ELSE parent[x]]
<1>10. Tree(k, p) /\ (NoCycle(parent) => NoCycle(p))
  <2> DEFINE C == {c}
  <2>1. C \subseteq D /\ Root \notin C /\ GivenTo(k, children, n, C) /\ p = [x \in Node |-> IF x \in C THEN n ELSE parent[x]]
    BY <1>1, <1>4, <1>5
  <2> HIDE DEF C, p
  <2> DEFINE r == [x \in Node |-> IF x \in C THEN n ELSE parent[x]]
  <2>2. Tree(k, r) /\ (Apart(C, D, children, n) /\ NoCycle(parent) => NoCycle(r))
    BY <1>2, <1>4, <1>5, <2>1, MovedTree
  <2>3. p = r
    BY <2>1
  <2> HIDE DEF r
  <2>4. Apart(C, D, children, n)
    BY <1>5, <2>1 DEF Apart
  <2> QED BY <2>2, <2>3, <2>4
<1>11. \A x \in Node : p[x] = IF x = c THEN n ELSE parent[x]
  OBVIOUS
<1> HIDE DEF p
<1>12. parent' = [x \in Node |-> IF x \in {old} THEN NoNode ELSE p[x]]
  BY <1>0, <1>1, <1>2, <1>11 DEF Parents
<1>13. \A m \in Node : ToSet(children'[m]) = ToSet(k[m]) \ {old}
  <2> SUFFICES ASSUME NEW m \in Node PROVE ToSet(children'[m]) = ToSet(k[m]) \ {old}
    OBVIOUS
  <2>1. CASE m = n
    BY <1>1, <1>4, <1>6, <1>7, <1>8, <1>9, <2>1 DEF GivenTo
  <2>2. CASE m # n
    <3>1. old \notin ToSet(children[m])
      BY <1>0, <1>1, <1>2, <2>2 DEF Agree
    <3>2. ToSet(children'[m]) = ToSet(children[m]) \ {c}
      BY <1>3, <1>9, <2>2
    <3>3. ToSet(k[m]) = ToSet(children[m]) \ {c}
      BY <1>4, <2>2 DEF GivenTo
    <3> QED BY <3>1, <3>2, <3>3
  <2> QED BY <2>1, <2>2
<1>14. Tree(children', parent') /\ (NoCycle(parent) => NoCycle(parent'))
  <2> DEFINE G == {old}
  <2>1. /\ \A m \in Node : ToSet(children'[m]) = ToSet(k[m]) \ G
        /\ parent' = [x \in Node |-> IF x \in G THEN NoNode ELSE p[x]]
    BY <1>12, <1>13
  <2> HIDE DEF G
  <2> DEFINE r == [x \in Node |-> IF x \in G THEN NoNode ELSE p[x]]
  <2>2. Tree(children', r) /\ (NoCycle(p) => NoCycle(r))
    BY <1>9, <1>10, <2>1, UnlinkedTree
  <2>3. parent' = r
    BY <2>1
  <2> HIDE DEF r
  <2> QED BY <1>10, <2>2, <2>3
<1>15. Fresh(children', parent', made')
  <2> SUFFICES ASSUME NEW m \in Node, m > made PROVE parent'[m] = NoNode /\ ToSet(children'[m]) = {}
    BY <1>1 DEF Fresh
  <2>1. parent[m] = NoNode /\ ToSet(children[m]) = {} /\ m # n /\ m # c /\ m \in Int
    BY <1>2, NodeFacts DEF Fresh
  <2> QED BY <1>4, <1>11, <1>12, <1>13, <2>1 DEF GivenTo
<1> QED BY <1>14, <1>15

LEMMA ContentStep ==
    ASSUME Tree(children, parent), Fresh(children, parent, made), made \in 0 .. MaxNode,
           NEW n \in Made, NEW ks \in Fragments, SetContent(n, ks)
    PROVE  /\ Tree(children', parent') /\ Fresh(children', parent', made')
           /\ NoCycle(parent) => NoCycle(parent')
<1>0. /\ Lists(children) /\ Parents(parent) /\ Agree(children, parent) /\ OnceEach(children)
  BY DEF Tree
<1> DEFINE new == [i \in DOMAIN ks |-> made + i]
           C == ToSet(new)
           G == ToSet(children[n])
           k == [children EXCEPT ![n] = <<>>]
           p == [x \in Node |-> IF x \in G THEN NoNode ELSE parent[x]]
<1>1. /\ made' = made + Len(ks) /\ made + Len(ks) <= MaxNode
      /\ children' = [children EXCEPT ![n] = new]
      /\ parent' = [x \in Node |-> IF x \in C THEN n ELSE IF x \in G THEN NoNode ELSE parent[x]]
  BY DEF SetContent, Allocate
<1>2. n \in Node /\ n <= made /\ made \in Nat /\ MaxNode \in Nat /\ n \in Int
  BY MadeNodes, NodeFacts
<1>3. DOMAIN ks = 1 .. Len(ks) /\ Len(ks) \in Nat
  BY DEF Fragments
<1>4. \A i \in 1 .. Len(ks) : made + i \in Node /\ made + i > made
  BY <1>1, <1>2, <1>3 DEF Node, Root
<1>5. new \in Seq(Node) /\ IsInjective(new) /\ DOMAIN new = 1 .. Len(ks)
  <2>1. new \in [1 .. Len(ks) -> Node] /\ DOMAIN new = 1 .. Len(ks)
    BY <1>3, <1>4
  <2>2. new \in Seq(Node)
    BY <1>3, <2>1, IsASeq
  <2>3. \A i, j \in 1 .. Len(ks) : new[i] = new[j] => i = j
    BY <1>2, <1>3
  <2> HIDE DEF new
  <2> QED BY <2>1, <2>2, <2>3 DEF IsInjective
<1>6. \A x \in C : x \in Node /\ x > made /\ x <= made'
  <2> SUFFICES ASSUME NEW x \in C PROVE x \in Node /\ x > made /\ x <= made'
    OBVIOUS
  <2>1. PICK i \in DOMAIN new : x = new[i]
    BY DEF ToSet
  <2>2. i \in 1 .. Len(ks) /\ x = made + i
    BY <1>3, <2>1
  <2> QED BY <1>1, <1>2, <1>3, <1>4, <2>2
<1> HIDE DEF new
<1>7. \A x \in C : parent[x] = NoNode /\ ToSet(children[x]) = {}
  BY <1>6 DEF Fresh
<1>8. n \notin C /\ Root \notin C
  <2>1. ~ (n > made) /\ ~ (Root > made)
    BY <1>2 DEF Root
  <2> QED BY <1>6, <2>1
<1>9. IsInjective(<<>>) /\ ToSet(<<>>) = {} /\ <<>> \in Seq(Node)
  BY DEF IsInjective, ToSet
<1>10. Lists(k) /\ OnceEach(k) /\ \A m \in Node : k[m] = IF m = n THEN <<>> ELSE children[m]
  BY <1>0, <1>2, <1>9 DEF Lists, OnceEach
<1>11. Lists(children') /\ OnceEach(children') /\ \A m \in Node : children'[m] = IF m = n THEN new ELSE children[m]
  BY <1>0, <1>1, <1>2, <1>5 DEF Lists, OnceEach
<1> HIDE DEF k
<1>12. \A m \in Node : ToSet(k[m]) = IF m = n THEN {} ELSE ToSet(children[m])
  BY <1>9, <1>10
<1>13. \A m \in Node : ToSet(k[m]) = ToSet(children[m]) \ G
  <2> SUFFICES ASSUME NEW m \in Node PROVE ToSet(k[m]) = ToSet(children[m]) \ G
    OBVIOUS
  <2>1. CASE m = n
    BY <1>12, <2>1
  <2>2. CASE m # n
    <3>1. ToSet(children[m]) \subseteq Node
      BY <1>0 DEF Lists, ToSet
    <3>2. \A x \in ToSet(children[m]) : parent[x] = m
      BY <1>0, <3>1 DEF Agree
    <3>3. \A x \in G : x \in Node => parent[x] = n
      BY <1>0, <1>2 DEF Agree
    <3>4. ToSet(children[m]) \cap G = {}
      BY <2>2, <3>1, <3>2, <3>3
    <3> QED BY <1>12, <2>2, <3>4
  <2> QED BY <2>1, <2>2
<1>14. Tree(k, p) /\ (NoCycle(parent) => NoCycle(p))
  <2> HIDE DEF G
  <2>1. Lists(k) /\ OnceEach(k)
    BY <1>10
  <2>2. Tree(k, p) /\ (NoCycle(parent) => NoCycle(p))
    BY <1>13, <2>1, UnlinkedTree
  <2> QED BY <2>2
<1>15. \A x \in Node : p[x] = IF x \in G THEN NoNode ELSE parent[x]
  OBVIOUS
<1> HIDE DEF p
<1>16. parent' = [x \in Node |-> IF x \in C THEN n ELSE p[x]]
  BY <1>1, <1>15
<1>17. GivenTo(children', k, n, C)
  <2> SUFFICES ASSUME NEW m \in Node
               PROVE  ToSet(children'[m]) = IF m = n THEN ToSet(k[m]) \cup C ELSE ToSet(k[m]) \ C
    BY DEF GivenTo
  <2>1. CASE m = n
    BY <1>11, <1>12, <2>1
  <2>2. CASE m # n
    <3>0. \A x \in C : parent[x] # m /\ x \in Node
      BY <1>6, <1>7, NodeFacts
    <3>1. ToSet(children[m]) \cap C = {}
      BY <1>0, <3>0 DEF Agree
    <3>2. ToSet(children'[m]) = ToSet(children[m])
      BY <1>11, <2>2
    <3>3. ToSet(k[m]) = ToSet(children[m])
      BY <1>12, <2>2
    <3> QED BY <2>2, <3>1, <3>2, <3>3
  <2> QED BY <2>1, <2>2
<1>18. C \in SUBSET Node /\ ClosedUnder(C, k)
  <2>1. \A m \in C : ToSet(k[m]) = {}
    BY <1>6, <1>7, <1>12
  <2> QED BY <1>6, <2>1 DEF ClosedUnder
<1> HIDE DEF C
<1>21. Apart(C, C, k, n)
  BY <1>8, <1>18 DEF Apart
<1>19. Tree(children', parent') /\ (NoCycle(parent) => NoCycle(parent'))
  <2> DEFINE q == [x \in Node |-> IF x \in C THEN n ELSE p[x]]
  <2> DEFINE s == children'
  <2>10. Tree(k, p) /\ Lists(s) /\ OnceEach(s) /\ GivenTo(s, k, n, C)
    BY <1>11, <1>14, <1>17
  <2>11. n \in Node /\ C \in SUBSET Node /\ Root \notin C
    BY <1>2, <1>8, <1>18
  <2> HIDE DEF s
  <2>1. Tree(s, q) /\ (Apart(C, C, k, n) /\ NoCycle(p) => NoCycle(q))
    BY ONLY <2>10, <2>11, MovedTree
  <2>2. parent' = q
    BY <1>16
  <2> HIDE DEF q
  <2> QED BY <1>14, <1>21, <2>1, <2>2 DEF s
<1>20. Fresh(children', parent', made')
  <2> SUFFICES ASSUME NEW m \in Node, m > made' PROVE parent'[m] = NoNode /\ ToSet(children'[m]) = {}
    BY DEF Fresh
  <2>1. m > made /\ m # n /\ m \notin C
    <3>1. m \in Int /\ made' \in Nat /\ made <= made'
      BY <1>1, <1>2, <1>3, NodeFacts
    <3>2. m \notin C
      <4>1. ~ (m <= made')
        BY <3>1
      <4> QED BY <1>6, <4>1
    <3> QED BY <1>2, <3>1, <3>2
  <2>2. parent[m] = NoNode /\ ToSet(children[m]) = {}
    BY <2>1 DEF Fresh
  <2>3. p[m] = NoNode
    BY <1>15, <2>2
  <2> QED BY <1>11, <1>16, <2>1, <2>2, <2>3
<1> QED BY <1>19, <1>20

LEMMA TreeInit ==
    Init => TreeInv
<1> SUFFICES ASSUME Init PROVE TreeInv
  OBVIOUS
<1>1. /\ made = 0 /\ parent = [n \in Node |-> NoNode] /\ children = [n \in Node |-> <<>>]
      /\ MaxNode \in Nat /\ Root \in Node /\ NoNode \notin Node
  BY NodeFacts DEF Init
<1>2. IsInjective(<<>>) /\ ToSet(<<>>) = {} /\ <<>> \in Seq(Node)
  BY DEF IsInjective, ToSet
<1>3. \A n \in Node : parent[n] = NoNode /\ children[n] = <<>>
  BY <1>1
<1>4. Parents(parent) /\ Lists(children)
  BY <1>1, <1>2 DEF Parents, Lists
<1>5. Agree(children, parent) /\ OnceEach(children) /\ parent[Root] = NoNode
  BY <1>1, <1>2, <1>3 DEF Agree, OnceEach
<1>6. NoCycle(parent)
  BY <1>1, <1>3 DEF NoCycle
<1>7. Fresh(children, parent, made)
  BY <1>2, <1>3 DEF Fresh
<1> QED BY <1>1, <1>4, <1>5, <1>6, <1>7 DEF TreeInv, Tree

\* Steps that leave the tree alone.
LEMMA TreeKept ==
    ASSUME TreeInv, made' = made, parent' = parent, children' = children, odd \subseteq odd'
    PROVE  TreeInv'
BY DEF TreeInv

LEMMA ParserKeepsTree ==
    ASSUME TreeInv, ParserStep
    PROVE  TreeInv'
<1>0. /\ made \in 0 .. MaxNode /\ made \in Nat /\ MaxNode \in Nat /\ Parents(parent)
      /\ Made \subseteq Node /\ \A m \in Made : m <= made
  BY MadeNodes, NodeFacts DEF TreeInv
<1>00. Parser => odd' = odd
  BY DEF Parser
<1>1. ASSUME NEW n \in Made, NEW ref, ParseElement(n, ref) \/ ParseText(n, ref) PROVE TreeInv'
  <2>1. PICK k : /\ Allocate(<<k>>) /\ Adopt(made', n) /\ children' = Placed(n, made', ref) /\ odd' = odd
    BY <1>1, <1>00 DEF ParseElement, ParseText
  <2>2. made' \in 0 .. MaxNode
    BY <1>0, <2>1 DEF Allocate
  <2>3. n \in Node
    BY <1>0
  <2>4. Parents(parent')
    BY <1>0, <2>1, <2>3 DEF Parents, Adopt
  <2>5. /\ "halfRemoved" \notin odd' => Tree(children', parent') /\ Fresh(children', parent', made')
        /\ {"halfRemoved", "cycle"} \cap odd' = {} => NoCycle(parent')
    BY <1>0, <2>1, NewNodeStep DEF TreeInv
  <2> QED BY <2>2, <2>4, <2>5 DEF TreeInv
<1>2. ASSUME NEW n \in Made, NEW c \in Made, NEW ref, ParseMove(n, c, ref) PROVE TreeInv'
  <2>1. /\ Adopt(c, n) /\ children' = Placed(n, c, ref) /\ odd' = odd /\ made' = made
        /\ c # Root /\ n \notin Subtree(c)
    BY <1>2, <1>00 DEF ParseMove, NoneMade
  <2>2. n \in Node /\ c \in Node /\ n <= made' /\ c <= made' /\ made' \in Nat /\ made <= made'
    BY <1>0, <2>1
  <2>3. Parents(parent')
    BY <1>0, <2>1, <2>2 DEF Parents, Adopt
  <2>4. /\ "halfRemoved" \notin odd' => Tree(children', parent') /\ Fresh(children', parent', made')
        /\ {"halfRemoved", "cycle"} \cap odd' = {} => NoCycle(parent')
    BY <1>0, <2>1, <2>2, PlaceStep DEF TreeInv
  <2> QED BY <1>0, <2>1, <2>3, <2>4 DEF TreeInv
<1>3. ASSUME NEW c \in Made, ParseRemove(c) PROVE TreeInv'
  <2>1. Adopt(c, NoNode) /\ children' = Detached(c) /\ odd' = odd /\ made' = made
    BY <1>3, <1>00 DEF ParseRemove, NoneMade
  <2>2. c \in Node /\ Parents(parent')
    BY <1>0, <2>1 DEF Parents, Adopt
  <2>3. /\ "halfRemoved" \notin odd' => Tree(children', parent') /\ Fresh(children', parent', made')
        /\ {"halfRemoved", "cycle"} \cap odd' = {} => NoCycle(parent')
    <3> SUFFICES ASSUME "halfRemoved" \notin odd
                 PROVE  /\ Tree(children', parent') /\ Fresh(children', parent', made')
                        /\ {"halfRemoved", "cycle"} \cap odd = {} => NoCycle(parent')
      BY <2>1
    <3>1. Tree(children, parent) /\ Fresh(children, parent, made)
      BY DEF TreeInv
    <3>2. /\ Lists(children') /\ OnceEach(children')
          /\ \A m \in Node : ToSet(children'[m]) = ToSet(children[m]) \ {c}
      BY <2>1, <2>2, <3>1, DetachedFacts
    <3>3. /\ Tree(children', parent') /\ Fresh(children', parent', made')
          /\ NoCycle(parent) => NoCycle(parent')
      BY <2>1, <2>2, <3>1, <3>2, UnlinkStep
    <3> QED BY <2>1, <3>3 DEF TreeInv
  <2> QED BY <1>0, <2>1, <2>2, <2>3 DEF TreeInv
<1>4. ASSUME NEW n \in Made, NEW to \in Made, ReparentChildren(n, to) PROVE TreeInv'
  <2>1. parent' = [c \in Node |-> IF parent[c] = n THEN to ELSE parent[c]] /\ odd' = odd /\ made' = made
    BY <1>4, <1>00 DEF ReparentChildren, NoneMade
  <2>2. Parents(parent')
    BY <1>0, <2>1 DEF Parents
  <2>3. /\ "halfRemoved" \notin odd' => Tree(children', parent') /\ Fresh(children', parent', made')
        /\ {"halfRemoved", "cycle"} \cap odd' = {} => NoCycle(parent')
    BY <1>0, <1>4, <2>1, ReparentStep DEF TreeInv
  <2> QED BY <1>0, <2>1, <2>2, <2>3 DEF TreeInv
<1>5. ASSUME ParsingEnds PROVE TreeInv'
  BY <1>5, TreeKept DEF ParsingEnds, treeVars
<1> QED BY <1>1, <1>2, <1>3, <1>4, <1>5 DEF ParserStep

LEMMA ScriptKeepsTree ==
    ASSUME TreeInv, ScriptStep
    PROVE  TreeInv'
<1>0. /\ made \in 0 .. MaxNode /\ made \in Nat /\ MaxNode \in Nat /\ Parents(parent)
      /\ Made \subseteq Node /\ \A m \in Made : m <= made
  BY MadeNodes, NodeFacts DEF TreeInv
<1>00. ASSUME NEW n, NEW c, Moves(n, c) PROVE odd \subseteq odd'
  BY <1>00 DEF Moves
<1>1. ASSUME NEW k, CreateNode(k) PROVE TreeInv'
  <2>1. made' = made + 1 /\ made' <= MaxNode /\ parent' = parent /\ children' = children /\ odd' = odd
    BY <1>1 DEF CreateNode, Allocate
  <2>2. made' \in 0 .. MaxNode /\ made <= made'
    BY <1>0, <2>1
  <2>3. Fresh(children, parent, made) => Fresh(children', parent', made')
    BY <1>0, <2>1, NodeFacts DEF Fresh
  <2> QED BY <2>1, <2>2, <2>3 DEF TreeInv
<1>2. ASSUME NEW n \in Made, NEW c \in Made, NEW ref, AppendChild(n, c) \/ InsertBefore(n, c, ref)
      PROVE  TreeInv'
  <2>1. PICK r : /\ Adopt(c, n) /\ children' = Placed(n, c, r) /\ odd \subseteq odd' /\ made' = made
                 /\ c # Root /\ ("cycle" \notin odd' => n \notin Subtree(c))
    BY <1>2, <1>00 DEF AppendChild, InsertBefore, Moves, IsAncestorOf, NoneMade
  <2>2. n \in Node /\ c \in Node /\ n <= made' /\ c <= made' /\ made' \in Nat /\ made <= made'
    BY <1>0, <2>1
  <2>3. Parents(parent')
    BY <1>0, <2>1, <2>2 DEF Parents, Adopt
  <2>4. /\ "halfRemoved" \notin odd' => Tree(children', parent') /\ Fresh(children', parent', made')
        /\ {"halfRemoved", "cycle"} \cap odd' = {} => NoCycle(parent')
    BY <1>0, <2>1, <2>2, PlaceStep DEF TreeInv
  <2> QED BY <1>0, <2>1, <2>3, <2>4 DEF TreeInv
<1>3. ASSUME NEW n \in Made, NEW c \in Made, RemoveChild(n, c) PROVE TreeInv'
  <2>1. /\ Adopt(c, NoNode) /\ children' = TakenOut(n, c) /\ odd' = odd /\ made' = made
        /\ c \in ToSet(children[n])
    BY <1>3 DEF RemoveChild, NoneMade
  <2>2. n \in Node /\ c \in Node /\ Parents(parent')
    BY <1>0, <2>1 DEF Parents, Adopt
  <2>3. /\ "halfRemoved" \notin odd' => Tree(children', parent') /\ Fresh(children', parent', made')
        /\ {"halfRemoved", "cycle"} \cap odd' = {} => NoCycle(parent')
    <3> SUFFICES ASSUME "halfRemoved" \notin odd
                 PROVE  /\ Tree(children', parent') /\ Fresh(children', parent', made')
                        /\ {"halfRemoved", "cycle"} \cap odd = {} => NoCycle(parent')
      BY <2>1
    <3>1. Tree(children, parent) /\ Fresh(children, parent, made)
      BY DEF TreeInv
    <3>2. /\ Lists(children') /\ OnceEach(children')
          /\ \A m \in Node : ToSet(children'[m]) = ToSet(children[m]) \ {c}
      BY <2>1, <2>2, <3>1, TakenOutFacts
    <3>3. /\ Tree(children', parent') /\ Fresh(children', parent', made')
          /\ NoCycle(parent) => NoCycle(parent')
      BY <2>1, <2>2, <3>1, <3>2, UnlinkStep
    <3> QED BY <2>1, <3>3 DEF TreeInv
  <2> QED BY <1>0, <2>1, <2>2, <2>3 DEF TreeInv
<1>4. ASSUME NEW n \in Made, NEW c \in Made, ReplaceSelf(n, c) PROVE TreeInv'
  BY <1>4 DEF ReplaceSelf, NoneMade, TreeInv
<1>5. ASSUME NEW n \in Made, NEW c \in Made, NEW old \in Made, ReplaceChild(n, c, old) PROVE TreeInv'
  <2>1. parent' = [parent EXCEPT ![c] = n, ![old] = NoNode] /\ odd \subseteq odd' /\ made' = made
    BY <1>5, <1>00 DEF ReplaceChild, NoneMade
  <2>2. n \in Node /\ c \in Node /\ old \in Node
    BY <1>0
  <2>3. Parents(parent')
    BY <1>0, <2>1, <2>2 DEF Parents
  <2>4. /\ "halfRemoved" \notin odd' => Tree(children', parent') /\ Fresh(children', parent', made')
        /\ {"halfRemoved", "cycle"} \cap odd' = {} => NoCycle(parent')
    BY <1>0, <1>5, <2>1, ReplaceStep DEF TreeInv
  <2> QED BY <1>0, <2>1, <2>3, <2>4 DEF TreeInv
<1>6. ASSUME NEW n \in Made, NEW ks \in Fragments, SetContent(n, ks) PROVE TreeInv'
  <2>1. /\ \E C, G : parent' = [x \in Node |-> IF x \in C THEN n ELSE IF x \in G THEN NoNode ELSE parent[x]]
        /\ odd' = odd /\ made' = made + Len(ks) /\ made + Len(ks) <= MaxNode
    BY <1>6 DEF SetContent, Allocate
  <2>2. Len(ks) \in Nat
    BY DEF Fragments
  <2>3. Parents(parent') /\ made' \in 0 .. MaxNode
    BY <1>0, <2>1, <2>2 DEF Parents
  <2>4. /\ "halfRemoved" \notin odd' => Tree(children', parent') /\ Fresh(children', parent', made')
        /\ {"halfRemoved", "cycle"} \cap odd' = {} => NoCycle(parent')
    BY <1>0, <1>6, <2>1, ContentStep DEF TreeInv
  <2> QED BY <2>3, <2>4 DEF TreeInv
<1>7. ASSUME NEW n \in Made, ChangeClass(n) \/ SetAttribute(n) PROVE TreeInv'
  BY <1>7, TreeKept DEF ChangeClass, SetAttribute, NoneMade
<1> QED BY <1>1, <1>2, <1>3, <1>4, <1>5, <1>6, <1>7 DEF ScriptStep

LEMMA EventsKeepTree ==
    ASSUME TreeInv, EventStep
    PROVE  TreeInv'
<1>1. made' = made /\ parent' = parent /\ children' = children /\ odd' = odd
  <2>1. ASSUME NEW n, NEW o, AddEventListener(n, o) PROVE UNCHANGED treeVars
    BY <2>1 DEF AddEventListener
  <2>2. ASSUME NEW n, RemoveEventListener(n) \/ DispatchEvent(n) PROVE UNCHANGED treeVars
    BY <2>2 DEF RemoveEventListener, DispatchEvent
  <2>3. Reach \/ Invoke \/ HandlerReturns \/ Leave \/ DispatchEnds => UNCHANGED treeVars
    BY DEF Reach, Invoke, HandlerReturns, Leave, DispatchEnds, Dispatching, domVars
  <2>4. UNCHANGED treeVars
    BY <2>1, <2>2, <2>3 DEF EventStep
  <2> QED BY <2>4 DEF treeVars
<1> QED BY <1>1, TreeKept

LEMMA TreeNext ==
    TreeInv /\ [Next]_vars => TreeInv'
<1> SUFFICES ASSUME TreeInv, [Next]_vars PROVE TreeInv'
  OBVIOUS
<1>1. CASE ParserStep
  BY <1>1, ParserKeepsTree
<1>2. CASE ScriptStep
  BY <1>2, ScriptKeepsTree
<1>3. CASE RenderIfDirty \/ RenderWithDamage
  BY <1>3, TreeKept DEF RenderIfDirty, RenderWithDamage
<1>4. CASE EventStep
  BY <1>4, EventsKeepTree
<1>5. CASE UNCHANGED vars
  BY <1>5, TreeKept DEF vars, domVars, treeVars
<1> QED BY <1>1, <1>2, <1>3, <1>4, <1>5 DEF Next

\* The tree holds together.
LEMMA TreeGives ==
    TreeInv => TreeConsistent
<1> SUFFICES ASSUME TreeInv, "halfRemoved" \notin odd
             PROVE  /\ \A n, c \in Made : c \in ToSet(children[n]) <=> parent[c] = n
                    /\ \A n \in Made : IsInjective(children[n])
                    /\ \A n \in Document \cup (IF "cycle" \in odd THEN {} ELSE Made) :
                           \A c \in ToSet(children[n]) : n \notin Subtree(c)
  BY DEF TreeConsistent
<1>1. Made \subseteq Node /\ Tree(children, parent) /\ Document \in SUBSET Node
  BY MadeNodes, NodeFacts, BranchLeast DEF TreeInv, Tree, Document, Subtree
<1>2. \A n \in Document : \A c \in ToSet(children[n]) : n \notin Subtree(c)
  BY <1>1, BranchInTree DEF Document, Subtree
<1>3. "cycle" \notin odd => \A n \in Made : \A c \in ToSet(children[n]) : n \notin Subtree(c)
  BY <1>1, BranchInTree DEF TreeInv, Subtree
<1> QED BY <1>1, <1>2, <1>3 DEF Tree, Agree, OnceEach

\* Parents and children agree, no node is in two places, and none of the
\* document is below itself, for any number of nodes and whatever the parser
\* and the scripts do: a cycle is always outside of the document.
THEOREM TreeStaysConsistent == Spec => []TreeConsistent
<1>1. Init => TreeInv
  BY TreeInit
<1>2. TreeInv /\ [Next]_vars => TreeInv'
  BY TreeNext
<1>3. TreeInv => TreeConsistent
  BY TreeGives
<1> QED BY <1>1, <1>2, <1>3, PTL DEF Spec

-----------------------------------------------------------------------------
(* The dirty flags.                                                        *)

\* mark_dirty leaves no gap: it marks the node and the parents of what it
\* marks, and it comes to the document only from a node of it.
LEMMA MarkFacts ==
    ASSUME NEW up, Parents(up), NEW n \in Node
    PROVE  /\ dirty \subseteq MarkDirty(up, n) /\ n \in MarkDirty(up, n)
           /\ MarkDirty(up, n) \subseteq dirty \cup Node
           /\ \A y \in MarkDirty(up, n) : \/ y \in dirty \/ up[y] = NoNode
                                          \/ up[y] \in MarkDirty(up, n)
           /\ \A K : Root \in MarkDirty(up, n) /\ Root \notin dirty /\ Root \in K
                     /\ (\A m \in Node : up[m] \in K => m \in K) => n \in K
<1> DEFINE kids == [m \in Node |-> IF up[m] \in dirty \cup {NoNode} THEN <<>> ELSE <<up[m]>>]
           B == Branch(kids, n)
<1>1. MarkDirty(up, n) = dirty \cup B
  BY DEF MarkDirty
<1>2. \A m \in Node : ToSet(kids[m]) = IF up[m] \in dirty \cup {NoNode} THEN {} ELSE {up[m]}
  BY DEF ToSet
<1>3. Lists(kids)
  <2>1. \A m \in Node : kids[m] \in Seq(Node)
    BY DEF Parents
  <2> QED BY <2>1 DEF Lists
<1> HIDE DEF kids
<1>4. /\ B \in SUBSET Node /\ n \in B /\ ClosedUnder(B, kids)
      /\ \A X : n \in X /\ ClosedUnder(X, kids) => B \subseteq X
  BY <1>3, BranchLeast
<1> HIDE DEF B
<1>5. \A y \in B : up[y] \in dirty \/ up[y] = NoNode \/ up[y] \in B
  BY <1>2, <1>4 DEF ClosedUnder, Parents
<1>6. ASSUME NEW K, Root \in B, Root \in K, \A m \in Node : up[m] \in K => m \in K, n \notin K
      PROVE  FALSE
  <2>1. n \in Node \ K
    BY <1>6
  <2>2. ClosedUnder(Node \ K, kids)
    BY <1>2, <1>6 DEF ClosedUnder
  <2> QED BY <1>4, <1>6, <2>1, <2>2
<1> QED BY <1>1, <1>4, <1>5, <1>6

\* The chain begins with the node, and its parent comes next if it has one.
Begins(s, n) ==
    /\ s \in Seq(Node) /\ Len(s) > 0 /\ s[1] = n
    /\ parent[n] = NoNode => Len(s) = 1
    /\ parent[n] # NoNode => Len(s) > 1 /\ s[2] = parent[n]

LEMMA ChainFacts ==
    ASSUME Parents(parent), NEW n \in Node
    PROVE  Begins(AncestorChain(n), n)
<1> DEFINE Lists1 == {s \in Seq(Node) : Len(s) > 0}
           Longer(s) == IF parent[Last(s)] = NoNode THEN s ELSE Append(s, parent[Last(s)])
           F == [i \in 1 .. MaxNode |-> [s \in Lists1 |-> Longer(s)]]
           Is(f) == f = [d \in 0 .. MaxNode |->
                            IF d = 0 THEN <<n>>
                            ELSE LET c == f[d - 1]
                                 IN  IF parent[Last(c)] = NoNode THEN c
                                     ELSE Append(c, parent[Last(c)])]
<1>1. MaxNode \in Nat /\ MaxNode > 0 /\ <<n>> \in Lists1
  BY DomAssumption
<1>2. \A s \in Lists1 : Longer(s) \in Lists1
  <2> SUFFICES ASSUME NEW s \in Lists1 PROVE Longer(s) \in Lists1
    OBVIOUS
  <2>1. s \in Seq(Node) /\ Len(s) \in Nat /\ Len(s) > 0
    OBVIOUS
  <2>2. Last(s) \in Node
    BY <2>1 DEF Last
  <2>3. parent[Last(s)] = NoNode \/ parent[Last(s)] \in Node
    BY <2>2 DEF Parents
  <2>4. ASSUME NEW q \in Node PROVE Append(s, q) \in Seq(Node) /\ Len(Append(s, q)) = Len(s) + 1
    BY <2>1
  <2> QED BY <2>1, <2>3, <2>4
<1>3. PICK f : IsRun(f, F, Lists1, <<n>>, MaxNode)
  <2>1. StepsWithin(F, Lists1, MaxNode)
    <3> HIDE DEF Lists1, Longer
    <3> QED BY <1>2 DEF StepsWithin
  <2> HIDE DEF F, Lists1
  <2> QED BY <1>1, <2>1, RunExists
<1>4. \A i \in 1 .. MaxNode : i - 1 \in 0 .. MaxNode /\ f[i - 1] \in Lists1
  <2> HIDE DEF Lists1, F
  <2> QED BY <1>1, <1>3 DEF IsRun
<1>5. \A i \in 1 .. MaxNode : f[i] = Longer(f[i - 1])
  <2> HIDE DEF Lists1, Longer
  <2> QED BY <1>3, <1>4 DEF IsRun
<1>6. Is(f)
  <2>1. \A i \in 0 .. MaxNode : i = 0 \/ i \in 1 .. MaxNode
    BY <1>1
  <2>2. f = [d \in 0 .. MaxNode |-> f[d]] /\ f[0] = <<n>>
    <3> HIDE DEF Lists1, F
    <3> QED BY <1>3 DEF IsRun
  <2> QED BY <1>5, <2>1, <2>2
<1> DEFINE g == CHOOSE h : Is(h)
<1>7. Is(g)
  BY <1>6
<1>8. AncestorChain(n) = g[MaxNode]
  BY DEF AncestorChain
<1> HIDE DEF g
<1>9. g = [d \in 0 .. MaxNode |-> IF d = 0 THEN <<n>> ELSE Longer(g[d - 1])]
  BY <1>7
<1> HIDE DEF Is
<1>10. g[0] = <<n>> /\ \A i \in 1 .. MaxNode : g[i] = Longer(g[i - 1])
  <2>1. 0 \in 0 .. MaxNode /\ \A i \in 1 .. MaxNode : i \in 0 .. MaxNode /\ i # 0
    BY <1>1
  <2> HIDE DEF Longer
  <2> QED BY <1>9, <2>1
<1>11. \A i \in 0 .. MaxNode : i = 0 \/ Begins(g[i], n)
  <2> DEFINE T == {i \in 0 .. MaxNode : i = 0 \/ Begins(g[i], n)}
  <2>1. 0 \in T
    BY <1>1
  <2>2. ASSUME NEW i \in 1 .. MaxNode, i - 1 \in T PROVE i \in T
    <3>1. i \in 0 .. MaxNode /\ g[i] = Longer(g[i - 1])
      BY <1>10
    <3>2. CASE i = 1
      <4>1. Last(<<n>>) = n /\ <<n>> \in Seq(Node) /\ Len(<<n>>) = 1 /\ <<n>>[1] = n
        BY DEF Last
      <4>2. g[i] = IF parent[n] = NoNode THEN <<n>> ELSE Append(<<n>>, parent[n])
        BY <1>10, <3>1, <3>2, <4>1
      <4>3. CASE parent[n] = NoNode
        <5>1. g[i] = <<n>>
          BY <4>2, <4>3
        <5>2. Begins(<<n>>, n)
          BY <4>1, <4>3 DEF Begins
        <5> QED BY <3>1, <5>1, <5>2
      <4>4. CASE parent[n] # NoNode
        <5>1. parent[n] \in Node
          BY <4>4 DEF Parents
        <5> DEFINE q == parent[n]
                   s == Append(<<n>>, q)
        <5>2. s \in Seq(Node) /\ Len(s) = 2 /\ s[1] = n /\ s[2] = q
          BY <5>1
        <5>3. g[i] = s
          BY <4>2, <4>4
        <5> HIDE DEF s
        <5> QED BY <3>1, <4>4, <5>2, <5>3 DEF Begins
      <4> QED BY <4>3, <4>4
    <3>3. CASE i # 1
      <4> DEFINE s == g[i - 1]
      <4>1. Begins(s, n)
        BY <2>2, <3>3
      <4> HIDE DEF s
      <4>2. s \in Seq(Node) /\ Len(s) \in Nat /\ Len(s) > 0 /\ s[1] = n
        BY <4>1 DEF Begins
      <4>3. Last(s) \in Node
        BY <4>2 DEF Last
      <4>4. CASE parent[Last(s)] = NoNode
        <5>1. g[i] = s
          BY <3>1, <4>4 DEF s
        <5> QED BY <3>1, <4>1, <5>1
      <4>5. CASE parent[Last(s)] # NoNode
        <5> DEFINE q == parent[Last(s)]
                   t == Append(s, q)
        <5>1. q \in Node
          BY <4>3, <4>5 DEF Parents
        <5>2. parent[n] # NoNode
          <6>1. ASSUME parent[n] = NoNode PROVE FALSE
            <7>1. Len(s) = 1
              BY <4>1, <6>1 DEF Begins
            <7>2. Last(s) = n
              BY <4>2, <7>1 DEF Last
            <7> QED BY <4>5, <6>1, <7>2
          <6> QED BY <6>1
        <5>3. Len(s) > 1 /\ s[2] = parent[n]
          BY <4>1, <5>2 DEF Begins
        <5> HIDE DEF q
        <5>4. t \in Seq(Node) /\ Len(t) = Len(s) + 1 /\ t[1] = s[1] /\ t[2] = s[2]
          BY <4>2, <5>1, <5>3
        <5>5. g[i] = t
          BY <3>1, <4>5 DEF s, q
        <5> HIDE DEF t
        <5>6. Begins(t, n)
          BY <4>2, <5>2, <5>3, <5>4 DEF Begins
        <5> QED BY <3>1, <5>5, <5>6
      <4> QED BY <4>4, <4>5
    <3> QED BY <3>2, <3>3
  <2> HIDE DEF T
  <2>3. \A i \in 0 .. MaxNode : i \in T
    BY <1>1, <2>1, <2>2, NumberInduction
  <2> QED BY <2>3 DEF T
<1> QED BY <1>1, <1>8, <1>11

LEMMA TailFacts ==
    ASSUME NEW n \in Node, NEW s, Begins(s, n)
    PROVE  /\ parent[n] = NoNode => ToSet(Tail(s)) = {}
           /\ parent[n] # NoNode => parent[n] \in ToSet(Tail(s))
<1>1. s \in Seq(Node) /\ Len(s) \in Nat /\ Len(s) > 0
  BY DEF Begins
<1>2. /\ Tail(s) \in Seq(Node) /\ Len(Tail(s)) = Len(s) - 1
      /\ \A i \in 1 .. Len(s) - 1 : Tail(s)[i] = s[i + 1]
  BY <1>1
<1>3. CASE parent[n] = NoNode
  <2>1. Len(Tail(s)) = 0
    BY <1>1, <1>2, <1>3 DEF Begins
  <2> DEFINE t == Tail(s)
  <2>2. t \in Seq(Node) /\ Len(t) = 0
    BY <1>2, <2>1
  <2> HIDE DEF t
  <2>3. DOMAIN t = {}
    BY <2>2
  <2>4. ToSet(t) = {}
    BY <2>3 DEF ToSet
  <2> QED BY <1>3, <2>4 DEF t
<1>4. CASE parent[n] # NoNode
  <2>1. 1 \in DOMAIN Tail(s) /\ Tail(s)[1] = parent[n]
    BY <1>1, <1>2, <1>4 DEF Begins
  <2> QED BY <1>4, <2>1 DEF ToSet
<1> QED BY <1>3, <1>4

\* The document, as a branch of the tree.
LEMMA DocumentFacts ==
    ASSUME Tree(children, parent)
    PROVE  /\ Document \in SUBSET Node /\ Root \in Document /\ ClosedUnder(Document, children)
           /\ \A x \in Document : x = Root \/ parent[x] \in Document
           /\ \A m \in Node : parent[m] \in Document => m \in Document
<1>0. Lists(children) /\ Agree(children, parent) /\ Root \in Node
  BY NodeFacts DEF Tree
<1>1. /\ Document \in SUBSET Node /\ Root \in Document /\ ClosedUnder(Document, children)
      /\ \A x \in Document : x = Root \/ parent[x] \in Document
  BY <1>0, BranchLeast, BranchInTree DEF Document, Subtree
<1>2. \A m \in Node : parent[m] \in Document => m \in Document
  BY <1>0, <1>1 DEF Agree, ClosedUnder
<1> QED BY <1>1, <1>2

\* What is kept of the dirty flags, when no script broke a rule.
Tidy == DirtyUpward /\ (stale => IsDirty) /\ (Root \in dirty => IsDirty) /\ dirty \subseteq Node

CleanInv ==
    /\ TreeInv
    /\ kind[Root] = "document"
    /\ parsing => dirty = {} /\ ~ stale
    /\ odd \subseteq {"cycle"} => Tidy

\* A dirty node makes the document itself dirty, which is then the only root.
LEMMA CleanGives ==
    CleanInv => CleanIsRendered
<1> SUFFICES ASSUME CleanInv, odd \subseteq {"cycle"}
             PROVE  /\ DirtyUpward /\ (~parsing /\ ~IsDirty => ~stale)
                    /\ DirtyRoots = IF IsDirty THEN {Root} ELSE {}
  BY DEF CleanIsRendered
<1>1. Tree(children, parent) /\ Tidy
  BY DEF CleanInv, TreeInv
<1>2. /\ Parents(parent) /\ Lists(children) /\ Agree(children, parent)
      /\ parent[Root] = NoNode /\ NoNode \notin Node /\ Root \in Node
  BY <1>1, NodeFacts DEF Tree
<1>3. \A n \in Node : /\ parent[n] = NoNode => ToSet(Tail(AncestorChain(n))) = {}
                      /\ parent[n] # NoNode => parent[n] \in ToSet(Tail(AncestorChain(n)))
  BY <1>2, ChainFacts, TailFacts
<1>4. Root \in Document /\ Document \in SUBSET Node /\ \A x \in Document : x = Root \/ parent[x] \in Document
  BY <1>1, DocumentFacts
<1>5. ASSUME NEW n \in Document, n \in dirty, n # Root
      PROVE  ~ \A m \in ToSet(Tail(AncestorChain(n))) : m \notin dirty
  <2>1. parent[n] \in Document /\ n \in Node
    BY <1>4, <1>5
  <2>2. parent[n] # NoNode
    BY <1>2, <1>4, <2>1
  <2>3. parent[n] \in dirty
    BY <1>1, <1>5, <2>2 DEF Tidy, DirtyUpward
  <2> QED BY <1>3, <2>1, <2>2, <2>3
<1>6. ASSUME IsDirty PROVE Root \in dirty
  <2> SUFFICES ASSUME Root \notin dirty PROVE Document \cap dirty = {}
    BY <1>6 DEF IsDirty
  <2> DEFINE Y == Document \ dirty
  <2>1. Root \in Y
    BY <1>4
  <2>2. ClosedUnder(Y, children)
    <3> SUFFICES ASSUME NEW m \in Y, NEW c \in Node, c \in ToSet(children[m]) PROVE c \in Y
      BY DEF ClosedUnder
    <3>1. parent[c] = m /\ m # NoNode /\ m \notin dirty /\ m \in Node
      BY <1>2, <1>4 DEF Agree
    <3>2. c \notin dirty
      BY <1>1, <3>1 DEF Tidy, DirtyUpward
    <3>3. c \in Document
      BY <1>1, <3>1, DocumentFacts
    <3> QED BY <3>2, <3>3
  <2> HIDE DEF Y
  <2>3. Document \subseteq Y
    BY <1>2, <2>1, <2>2, BranchLeast DEF Document, Subtree
  <2> QED BY <2>3 DEF Y
<1>7. Root \in Document /\ \A m \in ToSet(Tail(AncestorChain(Root))) : m \notin dirty
  BY <1>2, <1>3, <1>4
<1>8. DirtyRoots = IF IsDirty THEN {Root} ELSE {}
  <2>1. CASE IsDirty
    BY <1>5, <1>6, <1>7, <2>1 DEF DirtyRoots
  <2>2. CASE ~ IsDirty
    <3>1. \A n \in Document : n \notin dirty
      BY <1>1, <2>2 DEF Tidy, IsDirty
    <3> QED BY <2>2, <3>1 DEF DirtyRoots
  <2> QED BY <2>1, <2>2
<1> QED BY <1>1, <1>8 DEF Tidy

\* Where nothing changed the branch is the same.
LEMMA SameBranch ==
    ASSUME NEW kids, Lists(kids), NEW k, Lists(k), NEW n \in Node,
           \A m \in Branch(kids, n) : k[m] = kids[m]
    PROVE  Branch(k, n) = Branch(kids, n)
<1> DEFINE A == Branch(kids, n)
           B == Branch(k, n)
<1>1. A \in SUBSET Node /\ n \in A /\ ClosedUnder(A, kids) /\ \A X : n \in X /\ ClosedUnder(X, kids) => A \subseteq X
  BY BranchLeast
<1>2. B \in SUBSET Node /\ n \in B /\ ClosedUnder(B, k) /\ \A X : n \in X /\ ClosedUnder(X, k) => B \subseteq X
  BY BranchLeast
<1>3. \A m \in A : k[m] = kids[m]
  OBVIOUS
<1> HIDE DEF A, B
<1>4. ClosedUnder(A, k)
  BY <1>1, <1>3 DEF ClosedUnder
<1>5. B \subseteq A
  BY <1>1, <1>2, <1>4
<1>6. ClosedUnder(B, kids)
  BY <1>2, <1>3, <1>5 DEF ClosedUnder
<1>7. A = B
  BY <1>1, <1>2, <1>5, <1>6
<1> QED BY <1>7 DEF A, B

\* What is in a branch, and below none of the nodes that are taken out of it,
\* is still in it.
LEMMA StillInBranch ==
    ASSUME NEW kids, Lists(kids), NEW k, Lists(k), NEW r \in Node, NEW n \in Branch(kids, r),
           NEW G \in SUBSET Node, \A g \in G : n \notin Branch(kids, g),
           \A m \in Node : ToSet(kids[m]) \ G \subseteq ToSet(k[m])
    PROVE  n \in Branch(k, r)
<1> DEFINE B == Branch(k, r)
           D == UNION {Branch(kids, g) : g \in G}
<1>1. B \in SUBSET Node /\ r \in B /\ ClosedUnder(B, k)
  BY BranchLeast
<1>2. \A g \in G : Branch(kids, g) \in SUBSET Node /\ g \in Branch(kids, g) /\ ClosedUnder(Branch(kids, g), kids)
  BY BranchLeast
<1>3. D \in SUBSET Node /\ G \subseteq D /\ n \notin D
  BY <1>2
<1>4. ClosedUnder(D, kids)
  <2> SUFFICES ASSUME NEW m \in D, NEW c \in Node, c \in ToSet(kids[m]) PROVE c \in D
    BY DEF ClosedUnder
  <2>1. PICK g \in G : m \in Branch(kids, g)
    OBVIOUS
  <2>2. c \in Branch(kids, g)
    BY <1>2, <2>1 DEF ClosedUnder
  <2> QED BY <2>2
<1> HIDE DEF B, D
<1>5. ClosedUnder(B \cup D, kids)
  BY <1>1, <1>3, <1>4 DEF ClosedUnder
<1>6. r \in B \cup D
  BY <1>1
<1>7. Branch(kids, r) \subseteq B \cup D
  BY <1>5, <1>6, BranchLeast
<1>8. n \in B
  BY <1>3, <1>7
<1> QED BY <1>8 DEF B

\* A script changes the children of n and marks it: if n is not in the
\* document, the document stays what it is.
LEMMA MarkStep ==
    ASSUME Tidy, Tree(children, parent), Tree(children', parent'), NEW n \in Node, n # Root,
           Mark(n), \A x \in Node : parent'[x] \in {parent[x], n, NoNode},
           n \notin Document' => Document' = Document /\ (stale' => stale)
    PROVE  Tidy'
<1> DEFINE up == parent'
           d == MarkDirty(up, n)
<1>1. Parents(up)
  BY DEF Tree
<1>2. dirty' = d
  BY DEF Mark
<1>3. dirty \subseteq Node /\ NoNode \notin Node
  BY NodeFacts DEF Tidy
<1>30. up = parent'
  OBVIOUS
<1> HIDE DEF up
<1>4. /\ dirty \subseteq d /\ n \in d /\ d \subseteq dirty \cup Node
      /\ \A y \in d : y \in dirty \/ up[y] = NoNode \/ up[y] \in d
      /\ \A K : Root \in d /\ Root \notin dirty /\ Root \in K
                /\ (\A m \in Node : up[m] \in K => m \in K) => n \in K
  BY <1>1, MarkFacts
<1> HIDE DEF d
<1>5. \A y \in d : up[y] # NoNode => up[y] \in d
  <2> SUFFICES ASSUME NEW y \in d, up[y] # NoNode PROVE up[y] \in d
    OBVIOUS
  <2>1. CASE y \in dirty
    <3>1. up[y] \in {parent[y], n, NoNode}
      BY <1>3, <1>30, <2>1
    <3>2. parent[y] # NoNode => parent[y] \in dirty
      BY <2>1 DEF Tidy, DirtyUpward
    <3> QED BY <1>4, <3>1, <3>2
  <2> QED BY <1>4, <2>1
<1>6. DirtyUpward'
  BY <1>2, <1>30, <1>5 DEF DirtyUpward
<1> DEFINE K == Document'
<1>7. Root \in K /\ \A m \in Node : up[m] \in K => m \in K
  <2>1. /\ Document' \in SUBSET Node /\ Root \in Document' /\ ClosedUnder(Document', children')
    <3>1. Lists(children') /\ Root \in Node
      BY NodeFacts DEF Tree
    <3> QED BY <3>1, BranchLeast DEF Document, Subtree
  <2>2. Agree(children', parent')
    BY DEF Tree
  <2> QED BY <2>1, <2>2, <1>30 DEF Agree, ClosedUnder
<1>8. IsDirty' <=> (K \ {Root}) \cap d # {}
  BY <1>2 DEF IsDirty
<1>9. CASE n \in K
  BY <1>2, <1>3, <1>4, <1>6, <1>8, <1>9 DEF Tidy
<1>10. CASE n \notin K
  <2>1. K = Document /\ (stale' => stale)
    BY <1>10
  <2>2. IsDirty => IsDirty'
    BY <1>4, <1>8, <2>1 DEF IsDirty
  <2>3. Root \in d => Root \in dirty
    <3> HIDE DEF K
    <3> QED BY <1>4, <1>7, <1>10
  <2> QED BY <1>2, <1>3, <1>4, <1>6, <2>1, <2>2, <2>3 DEF Tidy
<1> QED BY <1>9, <1>10

\* The same, from what is taken out of the lists, and where they change.
LEMMA ChangeStep ==
    ASSUME Tidy, Tree(children, parent), Tree(children', parent'), NEW n \in Node, n # Root,
           Mark(n), Record, \A x \in Node : parent'[x] \in {parent[x], n, NoNode},
           NEW G \in SUBSET Node, n \in Document => \A g \in G : n \notin Subtree(g),
           \A m \in Node : ToSet(children[m]) \ G \subseteq ToSet(children'[m]),
           n \notin Document => \A m \in Document : children'[m] = children[m]
    PROVE  Tidy'
<1>1. Lists(children) /\ Lists(children') /\ Root \in Node
  BY NodeFacts DEF Tree
<1>2. n \in Document => n \in Document'
  <2> SUFFICES ASSUME n \in Document PROVE n \in Document'
    OBVIOUS
  <2>1. n \in Branch(children, Root) /\ \A g \in G : n \notin Branch(children, g)
    BY DEF Document, Subtree
  <2>2. n \in Branch(children', Root)
    BY <1>1, <2>1, StillInBranch
  <2> QED BY <2>2 DEF Document, Subtree
<1>3. ASSUME n \notin Document' PROVE Document' = Document /\ (stale' => stale)
  <2>1. \A m \in Document : children'[m] = children[m]
    BY <1>2, <1>3
  <2>2. \A m \in Branch(children, Root) : children'[m] = children[m]
    BY <2>1 DEF Document, Subtree
  <2>3. Branch(children', Root) = Branch(children, Root)
    BY <1>1, <2>2, SameBranch
  <2>4. Document' = Document
    BY <2>3 DEF Document, Subtree
  <2>5. Picture' = Picture
    BY <2>1, <2>4 DEF Picture
  <2> QED BY <2>4, <2>5 DEF Record
<1> QED BY <1>3, MarkStep

\* What is below a node outside of the document is outside, too.
LEMMA BelowOutside ==
    ASSUME Tree(children, parent), NEW c \in Node, c \notin Document
    PROVE  Subtree(c) \cap Document = {}
<1>1. /\ Lists(children) /\ Agree(children, parent) /\ parent[Root] = NoNode
      /\ NoNode \notin Node /\ Root \in Node
  BY NodeFacts DEF Tree
<1>2. Document \in SUBSET Node /\ \A x \in Document : x = Root \/ parent[x] \in Document
  BY DocumentFacts
<1>3. c \in Node \ Document
  OBVIOUS
<1>4. ClosedUnder(Node \ Document, children)
  BY <1>1, <1>2 DEF ClosedUnder, Agree
<1>5. Subtree(c) \subseteq Node \ Document
  BY <1>1, <1>3, <1>4, BranchLeast DEF Subtree
<1> QED BY <1>5

LEMMA PlacedElsewhere ==
    ASSUME Tree(children, parent), NEW n \in Node, NEW c \in Node, NEW ref, NEW m \in Node,
           m # n, parent[c] # m
    PROVE  Placed(n, c, ref)[m] = children[m] /\ Detached(c)[m] = children[m]
<1>1. Lists(children) /\ Parents(parent)
  BY DEF Tree
<1>2. Detached(c)[m] = children[m] /\ m \in DOMAIN Detached(c)
  BY <1>1 DEF Detached, Lists, Parents
<1>3. Placed(n, c, ref)[m] = Detached(c)[m]
  BY <1>2 DEF Placed
<1> QED BY <1>2, <1>3

\* The parser marks nothing, and what is parsed is rendered at its end.
LEMMA ParserKeepsClean ==
    ASSUME CleanInv, ParserStep
    PROVE  CleanInv'
<1>1. TreeInv'
  BY ParserKeepsTree DEF CleanInv
<1>2. CASE ParsingEnds
  <2>1. UNCHANGED <<kind, parent, children, dirty, stale, odd>> /\ ~ parsing'
    BY <1>2 DEF ParsingEnds, treeVars
  <2>2. Document' = Document
    BY <2>1 DEF Document, Subtree
  <2>3. Tidy => Tidy'
    BY <2>1, <2>2 DEF Tidy, DirtyUpward, IsDirty
  <2> QED BY <1>1, <2>1, <2>3 DEF CleanInv
<1>3. CASE ~ ParsingEnds
  <2>1. Parser /\ (UNCHANGED <<made, kind>> \/ \E k : Allocate(<<k>>))
    BY <1>3 DEF ParserStep, ParseElement, ParseText, ParseMove, ParseRemove, ReparentChildren, NoneMade
  <2>2. dirty' = {} /\ ~ stale'
    BY <2>1 DEF Parser, CleanInv
  <2>3. kind'[Root] = "document"
    <3>1. CASE UNCHANGED <<made, kind>>
      BY <3>1 DEF CleanInv
    <3>2. ASSUME NEW k, Allocate(<<k>>) PROVE kind'[Root] = "document"
      <4>1. Root \in Node /\ made \in Nat
        BY NodeFacts, MadeNodes DEF CleanInv, TreeInv
      <4>2. ~ (Root - made \in DOMAIN <<k>>)
        BY <4>1 DEF Root
      <4> QED BY <3>2, <4>1, <4>2 DEF Allocate, CleanInv
    <3> QED BY <2>1, <3>1, <3>2
  <2>4. Tidy'
    BY <2>2 DEF Tidy, DirtyUpward, IsDirty
  <2> QED BY <1>1, <2>2, <2>3, <2>4 DEF CleanInv
<1> QED BY <1>2, <1>3

LEMMA ScriptKeepsClean ==
    ASSUME CleanInv, ScriptStep
    PROVE  CleanInv'
<1>0. /\ TreeInv /\ TreeInv' /\ Root \in Node /\ made \in Nat /\ Made \subseteq Node
      /\ kind[Root] = "document"
  BY ScriptKeepsTree, NodeFacts, MadeNodes DEF CleanInv, TreeInv
<1>1. /\ ~ parsing' /\ odd \subseteq odd'
      /\ UNCHANGED kind \/ \E ks : Allocate(ks) /\ (ks \in Fragments \/ \E k : ks = <<k>>)
  <2>1. ~ parsing'
    BY DEF ScriptStep, Script, CreateNode, AppendChild, RemoveChild, ReplaceSelf, InsertBefore,
           ReplaceChild, SetContent, ChangeClass, SetAttribute
  <2>2. odd \subseteq odd'
    BY DEF ScriptStep, CreateNode, AppendChild, RemoveChild, ReplaceSelf, InsertBefore,
           ReplaceChild, SetContent, ChangeClass, SetAttribute, Moves
  <2>3. UNCHANGED kind \/ \E ks : Allocate(ks) /\ (ks \in Fragments \/ \E k : ks = <<k>>)
    BY DEF ScriptStep, CreateNode, AppendChild, RemoveChild, ReplaceSelf, InsertBefore,
           ReplaceChild, SetContent, ChangeClass, SetAttribute, NoneMade
  <2> QED BY <2>1, <2>2, <2>3
<1>2. kind'[Root] = "document"
  <2>1. ASSUME NEW ks, Allocate(ks), ks \in Fragments \/ \E k : ks = <<k>> PROVE kind'[Root] = "document"
    <3>1. \A i \in DOMAIN ks : i \in Nat /\ i > 0
      BY <2>1 DEF Fragments
    <3>2. ~ (Root - made \in DOMAIN ks)
      BY <1>0, <3>1 DEF Root
    <3> QED BY <1>0, <2>1, <3>2 DEF Allocate
  <2> QED BY <1>0, <1>1, <2>1
<1> SUFFICES ASSUME odd' \subseteq {"cycle"} PROVE Tidy'
  BY <1>0, <1>1, <1>2 DEF CleanInv
<1>3. /\ Tidy /\ Tree(children, parent) /\ Tree(children', parent')
  BY <1>0, <1>1 DEF CleanInv, TreeInv
<1>4. /\ Lists(children) /\ Parents(parent) /\ Agree(children, parent)
  BY <1>3 DEF Tree
<1>5. /\ Document \in SUBSET Node /\ \A m \in Node : parent[m] \in Document => m \in Document
      /\ \A x \in Document : x = Root \/ parent[x] \in Document
  BY <1>3, DocumentFacts
<1>55. ASSUME NEW n \in Node, n \in Document PROVE \A g \in ToSet(children[n]) : n \notin Subtree(g)
  BY <1>3, <1>55, BranchInTree DEF Document, Subtree
<1>56. ASSUME NEW n, NEW c \in Node, Moves(n, c), n \in Document PROVE n \notin Subtree(c)
  <2>1. c \notin Document => n \notin Subtree(c)
    BY <1>3, <1>56, BelowOutside
  <2> QED BY <1>56, <2>1 DEF Moves, IsAncestorOf
<1>6. ASSUME NEW k, CreateNode(k) PROVE Tidy'
  <2>1. UNCHANGED <<parent, children, dirty, stale>>
    BY <1>6 DEF CreateNode
  <2>2. Document' = Document
    BY <2>1 DEF Document, Subtree
  <2> QED BY <1>3, <2>1, <2>2 DEF Tidy, DirtyUpward, IsDirty
<1>7. ASSUME NEW n \in Made, NEW c \in Made, NEW ref, AppendChild(n, c) \/ InsertBefore(n, c, ref)
      PROVE  Tidy'
  <2>1. PICK r : /\ Adopt(c, n) /\ children' = Placed(n, c, r) /\ Moves(n, c)
                 /\ n # Root /\ Mark(n) /\ Record
    BY <1>7 DEF AppendChild, InsertBefore
  <2>2. n \in Node /\ c \in Node
    BY <1>0
  <2>3. \A x \in Node : parent'[x] \in {parent[x], n, NoNode}
    BY <1>4, <2>1, <2>2 DEF Parents, Adopt
  <2>4. \A m \in Node : ToSet(children[m]) \ {c} \subseteq ToSet(children'[m])
    <3>1. GivenTo(children', children, n, {c})
      BY <1>3, <2>1, <2>2, PlacedFacts
    <3> QED BY <3>1 DEF GivenTo
  <2>5. ASSUME n \notin Document, NEW m \in Document PROVE children'[m] = children[m]
    <3>1. c \notin Document
      BY <2>1, <2>5 DEF Moves
    <3>2. m \in Node /\ m # n /\ parent[c] # m
      BY <1>5, <2>2, <2>5, <3>1
    <3> QED BY <1>3, <2>1, <2>2, <3>2, PlacedElsewhere
  <2> DEFINE G == {c}
  <2>6. /\ G \in SUBSET Node /\ (n \in Document => \A g \in G : n \notin Subtree(g))
        /\ \A m \in Node : ToSet(children[m]) \ G \subseteq ToSet(children'[m])
    BY <1>56, <2>1, <2>2, <2>4
  <2> HIDE DEF G
  <2> QED BY <1>3, <2>1, <2>2, <2>3, <2>5, <2>6, ChangeStep
<1>8. ASSUME NEW n \in Made, NEW c \in Made, RemoveChild(n, c) PROVE Tidy'
  <2>1. /\ Adopt(c, NoNode) /\ children' = TakenOut(n, c) /\ c \in ToSet(children[n])
        /\ n # Root /\ Mark(n) /\ Record
    BY <1>8 DEF RemoveChild
  <2>2. n \in Node /\ c \in Node
    BY <1>0
  <2>3. \A x \in Node : parent'[x] \in {parent[x], n, NoNode}
    BY <1>4, <2>1, <2>2 DEF Parents, Adopt
  <2>4. \A m \in Node : ToSet(children[m]) \ {c} \subseteq ToSet(children'[m])
    BY <1>3, <2>1, <2>2, TakenOutFacts
  <2>5. ASSUME n \notin Document, NEW m \in Document PROVE children'[m] = children[m]
    BY <1>4, <1>5, <2>1, <2>2, <2>5 DEF TakenOut, Lists
  <2>6. n \in Document => n \notin Subtree(c)
    BY <1>55, <2>1, <2>2
  <2> DEFINE G == {c}
  <2>7. /\ G \in SUBSET Node /\ (n \in Document => \A g \in G : n \notin Subtree(g))
        /\ \A m \in Node : ToSet(children[m]) \ G \subseteq ToSet(children'[m])
    BY <2>2, <2>4, <2>6
  <2> HIDE DEF G
  <2> QED BY <1>3, <2>1, <2>2, <2>3, <2>5, <2>7, ChangeStep
<1>9. ASSUME NEW n \in Made, NEW c \in Made, ReplaceSelf(n, c) PROVE Tidy'
  BY <1>9 DEF ReplaceSelf
<1>10. ASSUME NEW n \in Made, NEW c \in Made, NEW old \in Made, ReplaceChild(n, c, old) PROVE Tidy'
  <2> DEFINE rest == Detached(c)
             s == [rest[n] EXCEPT ![PositionOf(rest[n], old)] = c]
  <2>1. /\ parent' = [parent EXCEPT ![c] = n, ![old] = NoNode] /\ children' = [rest EXCEPT ![n] = s]
        /\ old \in ToSet(children[n]) /\ Moves(n, c)
        /\ c # old /\ n # Root /\ Mark(n) /\ Record
    BY <1>10 DEF ReplaceChild
  <2>2. n \in Node /\ c \in Node /\ old \in Node
    BY <1>0
  <2>3. \A x \in Node : parent'[x] \in {parent[x], n, NoNode}
    BY <1>4, <2>1, <2>2 DEF Parents
  <2>4. Lists(rest) /\ OnceEach(rest) /\ \A m \in Node : ToSet(rest[m]) = ToSet(children[m]) \ {c}
    BY <1>3, <2>2, DetachedFacts
  <2>5. ASSUME n \notin Document, NEW m \in Document PROVE children'[m] = children[m]
    <3>1. c \notin Document
      BY <2>1, <2>5 DEF Moves
    <3>2. m \in Node /\ m # n /\ parent[c] # m
      BY <1>5, <2>2, <2>5, <3>1
    <3>3. rest[m] = children[m]
      BY <1>3, <2>2, <3>2, PlacedElsewhere
    <3> HIDE DEF s, rest
    <3> QED BY <2>1, <2>4, <3>2, <3>3 DEF Lists
  <2> DEFINE G == {c, old}
  <2>6. \A m \in Node : ToSet(children[m]) \ G \subseteq ToSet(children'[m])
    <3> SUFFICES ASSUME NEW m \in Node PROVE ToSet(children[m]) \ G \subseteq ToSet(children'[m])
      OBVIOUS
    <3>1. CASE m # n
      <4>1. children'[m] = rest[m]
        <5> HIDE DEF s, rest
        <5> QED BY <2>1, <2>4, <3>1 DEF Lists
      <4>2. ToSet(rest[m]) = ToSet(children[m]) \ {c}
        BY <2>4
      <4> HIDE DEF rest
      <4> QED BY <4>1, <4>2
    <3>2. CASE m = n
      <4> DEFINE q == rest[n]
                 i == PositionOf(q, old)
                 t == [q EXCEPT ![i] = c]
      <4>1. q \in Seq(Node) /\ IsInjective(q) /\ ToSet(q) = ToSet(children[n]) \ {c}
        BY <2>2, <2>4 DEF Lists, OnceEach
      <4>2. children'[n] = t
        <5> DEFINE r == rest
        <5>1. t = s
          OBVIOUS
        <5> HIDE DEF s, rest, t
        <5> QED BY <2>1, <2>2, <2>4, <5>1 DEF Lists
      <4> HIDE DEF q
      <4>3. i \in DOMAIN q /\ q[i] = old
        BY <2>1, <4>1, PositionFacts
      <4> HIDE DEF i
      <4>4. c \notin ToSet(q)
        BY <4>1
      <4>5. ToSet(t) = (ToSet(q) \ {q[i]}) \cup {c}
        BY <2>2, <4>1, <4>3, <4>4, SetOneMember
      <4> HIDE DEF t
      <4> QED BY <3>2, <4>1, <4>2, <4>3, <4>5
    <3> QED BY <3>1, <3>2
  <2>7. n \in Document => n \notin Subtree(old) /\ n \notin Subtree(c)
    BY <1>55, <1>56, <2>1, <2>2
  <2>8. G \in SUBSET Node /\ (n \in Document => \A g \in G : n \notin Subtree(g))
    <3>1. G \in SUBSET Node /\ \A g \in G : g = c \/ g = old
      BY <2>2
    <3> HIDE DEF G, rest, s
    <3> QED BY <2>7, <3>1
  <2>9. n # Root /\ Mark(n) /\ Record
    BY <2>1
  <2>10. n \notin Document => \A m \in Document : children'[m] = children[m]
    BY <2>5
  <2> HIDE DEF G, rest, s
  <2> QED BY ONLY <1>3, <2>2, <2>3, <2>6, <2>8, <2>9, <2>10, ChangeStep
<1>11. ASSUME NEW n \in Made, NEW ks \in Fragments, SetContent(n, ks) PROVE Tidy'
  <2> DEFINE G == ToSet(children[n])
  <2>1. /\ \E s : children' = [children EXCEPT ![n] = s]
        /\ \E C : parent' = [x \in Node |-> IF x \in C THEN n ELSE IF x \in G THEN NoNode ELSE parent[x]]
        /\ n # Root /\ Mark(n) /\ Record
    BY <1>11 DEF SetContent
  <2>2. n \in Node /\ G \in SUBSET Node
    BY <1>0, <1>4 DEF Lists, ToSet
  <2>3. \A x \in Node : parent'[x] \in {parent[x], n, NoNode}
    BY <2>1
  <2>4. \A m \in Node : m # n => children'[m] = children[m]
    BY <1>4, <2>1 DEF Lists
  <2>5. \A m \in Node : ToSet(children[m]) \ G \subseteq ToSet(children'[m])
    BY <2>4
  <2>6. n \notin Document => \A m \in Document : children'[m] = children[m]
    BY <1>5, <2>4
  <2>7. n \in Document => \A g \in G : n \notin Subtree(g)
    BY <1>55, <2>2
  <2> HIDE DEF G
  <2> QED BY <1>3, <2>1, <2>2, <2>3, <2>5, <2>6, <2>7, ChangeStep
<1>12. ASSUME NEW n \in Made, ChangeClass(n) PROVE Tidy'
  <2>1. /\ n # Root /\ dirty' = MarkDirty(parent, n) /\ stale' = (stale \/ n \in Document)
        /\ UNCHANGED <<parent, children>>
    BY <1>0, <1>12 DEF ChangeClass
  <2>2. Document' = Document /\ n \in Node
    BY <1>0, <2>1 DEF Document, Subtree
  <2>3. Mark(n)
    BY <2>1 DEF Mark
  <2>4. \A x \in Node : parent'[x] \in {parent[x], n, NoNode}
    BY <2>1
  <2>5. n \notin Document' => Document' = Document /\ (stale' => stale)
    BY <2>1, <2>2
  <2> QED BY <1>3, <2>1, <2>2, <2>3, <2>4, <2>5, MarkStep
<1>13. ASSUME NEW n \in Made, SetAttribute(n) PROVE Tidy'
  BY <1>13 DEF SetAttribute
<1> QED BY <1>6, <1>7, <1>8, <1>9, <1>10, <1>11, <1>12, <1>13 DEF ScriptStep

\* A rendering clears the flags of the document, and of nothing else.
LEMMA RenderKeepsClean ==
    ASSUME CleanInv, RenderIfDirty \/ RenderWithDamage
    PROVE  CleanInv'
<1>1. /\ ~ parsing /\ dirty' = dirty \ Document /\ ~ stale'
      /\ UNCHANGED <<made, kind, parent, children, parsing, odd>>
  BY DEF RenderIfDirty, RenderWithDamage
<1>2. TreeInv'
  BY <1>1, TreeKept DEF CleanInv
<1>3. ASSUME odd \subseteq {"cycle"} PROVE Tidy'
  <2>1. Tidy /\ Tree(children, parent)
    BY <1>3 DEF CleanInv, TreeInv
  <2>2. Root \in Document /\ \A m \in Node : parent[m] \in Document => m \in Document
    BY <2>1, DocumentFacts
  <2>3. dirty' \subseteq Node /\ Root \notin dirty'
    BY <1>1, <2>1, <2>2 DEF Tidy
  <2>4. DirtyUpward'
    BY <1>1, <2>1, <2>2 DEF Tidy, DirtyUpward
  <2> QED BY <1>1, <2>3, <2>4 DEF Tidy
<1> QED BY <1>1, <1>2, <1>3 DEF CleanInv

LEMMA CleanKept ==
    ASSUME CleanInv, UNCHANGED domVars
    PROVE  CleanInv'
<1>1. UNCHANGED <<made, kind, parent, children, dirty, stale, odd, parsing>>
  BY DEF domVars, treeVars
<1>2. TreeInv'
  BY <1>1, TreeKept DEF CleanInv
<1>3. Document' = Document
  BY <1>1 DEF Document, Subtree
<1>4. Tidy => Tidy'
  BY <1>1, <1>3 DEF Tidy, DirtyUpward, IsDirty
<1> QED BY <1>1, <1>2, <1>4 DEF CleanInv

LEMMA EventsLeaveTree ==
    ASSUME EventStep
    PROVE  UNCHANGED domVars
<1>1. ASSUME NEW n, NEW o, AddEventListener(n, o) PROVE UNCHANGED domVars
  BY <1>1 DEF AddEventListener, Script, domVars
<1>2. ASSUME NEW n, RemoveEventListener(n) \/ DispatchEvent(n) PROVE UNCHANGED domVars
  BY <1>2 DEF RemoveEventListener, DispatchEvent, Script, domVars
<1>3. Reach \/ Invoke \/ HandlerReturns \/ Leave \/ DispatchEnds => UNCHANGED domVars
  BY DEF Reach, Invoke, HandlerReturns, Leave, DispatchEnds, Dispatching
<1> QED BY <1>1, <1>2, <1>3 DEF EventStep

LEMMA CleanNext ==
    CleanInv /\ [Next]_vars => CleanInv'
<1> SUFFICES ASSUME CleanInv, [Next]_vars PROVE CleanInv'
  OBVIOUS
<1>1. CASE ParserStep
  BY <1>1, ParserKeepsClean
<1>2. CASE ScriptStep
  BY <1>2, ScriptKeepsClean
<1>3. CASE RenderIfDirty \/ RenderWithDamage
  BY <1>3, RenderKeepsClean
<1>4. CASE EventStep
  BY <1>4, EventsLeaveTree, CleanKept
<1>5. CASE UNCHANGED vars
  BY <1>5, CleanKept DEF vars
<1> QED BY <1>1, <1>2, <1>3, <1>4, <1>5 DEF Next

\* A document without a dirty flag looks as it was last rendered, for any
\* number of nodes, listeners and nested dispatches.
THEOREM CleanStaysRendered == Spec => []CleanIsRendered
<1>1. Init => CleanInv
  <2> SUFFICES ASSUME Init PROVE CleanInv
    OBVIOUS
  <2>1. TreeInv
    BY TreeInit
  <2>2. kind[Root] = "document" /\ dirty = {} /\ ~ stale
    BY NodeFacts DEF Init
  <2> QED BY <2>1, <2>2 DEF CleanInv, Tidy, DirtyUpward, IsDirty
<1>2. CleanInv /\ [Next]_vars => CleanInv'
  BY CleanNext
<1>3. CleanInv => CleanIsRendered
  BY CleanGives
<1> QED BY <1>1, <1>2, <1>3, PTL DEF Spec

-----------------------------------------------------------------------------
(* The listeners that fire once.                                           *)

Listener == [id : Nat, phase : Phases, once : BOOLEAN]
Visit == [node : Node, phase : {"capture", "target", "bubble"}]
Frames == [path : Seq(Visit), at : Node \cup {NoNode}, batch : Seq(Listener),
           once : SUBSET Nat, running : Nat]

\* The listeners of n, in these lists.
At(ls, n) == ToSet(ls[n])

\* Of the listeners ls on nodes, of which max were added, and the frames ds of
\* the dispatches: what a node hears is its own and nobody else's, ...
OwnListeners(ls, max) ==
    /\ ls \in [Node -> Seq(Listener)]
    /\ \A n \in Node : \A l \in At(ls, n) : l.id <= max
    /\ \A n, m \in Node : \A k \in At(ls, n), l \in At(ls, m) : k.id = l.id => n = m /\ k = l

\* ... a batch is of the node of its frame, and those in it that fire once are
\* noted, ...
BatchNoted(ls, f) ==
    \A j \in DOMAIN f.batch : \A n \in Node : \A l \in At(ls, n) :
        l.id = f.batch[j].id => n = f.at /\ (l.once => l.id \in f.once)

BatchBounded(f, max) == \A j \in DOMAIN f.batch : f.batch[j].id <= max

FramesNoted(ls, ds, max) ==
    /\ ds \in Seq(Frames)
    /\ \A i \in DOMAIN ds : BatchNoted(ls, ds[i]) /\ BatchBounded(ds[i], max)

\* ... and what has fired and is still there is noted in a frame at its node.
FiredNoted(ls, ds, fs) ==
    \A n \in Node : \A l \in At(ls, n) :
        l.once /\ l.id \in fs => \E i \in DOMAIN ds : ds[i].at = n /\ l.id \in ds[i].once

OnceInv ==
    /\ registered \in Nat /\ fired \subseteq 0 .. registered
    /\ OwnListeners(listeners, registered)
    /\ FramesNoted(listeners, dispatches, registered)
    /\ FiredNoted(listeners, dispatches, fired)

LEMMA OnceGives ==
    TreeInv /\ OnceInv => OnceRemoved
<1> SUFFICES ASSUME TreeInv, OnceInv, dispatches = <<>>, NEW n \in Made, NEW l \in ToSet(listeners[n]),
                    l.once, l.id \in fired
             PROVE  FALSE
  BY DEF OnceRemoved
<1>1. n \in Node
  BY MadeNodes DEF TreeInv
<1>2. DOMAIN dispatches = {}
  OBVIOUS
<1> QED BY <1>1, <1>2 DEF OnceInv, FiredNoted, At

\* The path of a dispatch.
LEMMA PathFacts ==
    ASSUME Parents(parent), NEW n \in Node
    PROVE  DispatchPath(n) \in Seq(Visit)
<1> DEFINE up == Tail(AncestorChain(n))
<1>1. up \in Seq(Node)
  <2> DEFINE c == AncestorChain(n)
  <2>1. Begins(c, n)
    BY ChainFacts
  <2> HIDE DEF c
  <2>2. Tail(c) \in Seq(Node)
    BY <2>1 DEF Begins
  <2> QED BY <2>2 DEF c
<1> HIDE DEF up
<1>2. ASSUME NEW s \in Seq(Node), NEW phase \in {"capture", "target", "bubble"}
      PROVE  [i \in DOMAIN s |-> [node |-> s[i], phase |-> phase]] \in Seq(Visit)
  <2> DEFINE v == [i \in DOMAIN s |-> [node |-> s[i], phase |-> phase]]
  <2>1. Len(s) \in Nat /\ DOMAIN s = 1 .. Len(s) /\ \A i \in 1 .. Len(s) : s[i] \in Node
    OBVIOUS
  <2>2. v \in [1 .. Len(s) -> Visit]
    BY <2>1 DEF Visit
  <2> HIDE DEF v
  <2>3. v \in Seq(Visit)
    BY <2>1, <2>2, IsASeq
  <2> QED BY <2>3 DEF v
<1>3. Reverse(up) \in Seq(Node)
  <2>1. Len(up) \in Nat /\ DOMAIN up = 1 .. Len(up)
    BY <1>1
  <2>2. Reverse(up) \in [1 .. Len(up) -> Node]
    BY <1>1, <2>1 DEF Reverse
  <2> QED BY <2>1, <2>2, IsASeq
<1>4. <<n>> \in Seq(Node)
  OBVIOUS
<1> DEFINE a == [i \in DOMAIN Reverse(up) |-> [node |-> Reverse(up)[i], phase |-> "capture"]]
           b == [i \in DOMAIN <<n>> |-> [node |-> <<n>>[i], phase |-> "target"]]
           c == [i \in DOMAIN up |-> [node |-> up[i], phase |-> "bubble"]]
<1>5. a \in Seq(Visit)
  BY <1>2, <1>3
<1>6. b \in Seq(Visit)
  BY <1>2, <1>4
<1>7. c \in Seq(Visit)
  BY <1>1, <1>2
<1>8. DispatchPath(n) = a \o b \o c
  BY DEF DispatchPath, up
<1> HIDE DEF a, b, c
<1>9. a \o b \in Seq(Visit)
  BY <1>5, <1>6
<1>10. (a \o b) \o c \in Seq(Visit)
  BY <1>7, <1>9
<1> QED BY <1>8, <1>10

\* A step of the frame at the top alone.
LEMMA TopStep ==
    ASSUME NEW f \in Frames, dispatches # <<>>, dispatches \in Seq(Frames), SetTop(f)
    PROVE  /\ Len(dispatches) \in Nat /\ Len(dispatches) \in DOMAIN dispatches
           /\ Top = dispatches[Len(dispatches)] /\ Top \in Frames
           /\ dispatches' \in Seq(Frames) /\ DOMAIN dispatches' = DOMAIN dispatches
           /\ \A i \in DOMAIN dispatches :
                 dispatches'[i] = IF i = Len(dispatches) THEN f ELSE dispatches[i]
<1> DEFINE s == dispatches
           r == Front(s) \o <<f>>
<1>1. dispatches' = r
  BY DEF SetTop
<1> HIDE DEF s
<1>2. s \in Seq(Frames) /\ s # <<>>
  BY DEF s
<1>3. /\ Len(s) \in Nat /\ Len(s) > 0 /\ Last(s) = s[Len(s)] /\ Last(s) \in Frames
      /\ r \in Seq(Frames) /\ Len(r) = Len(s)
      /\ DOMAIN r = 1 .. Len(s) /\ DOMAIN s = 1 .. Len(s)
      /\ \A i \in 1 .. Len(s) : r[i] = IF i = Len(s) THEN f ELSE s[i]
  BY <1>2, TopFacts
<1> HIDE DEF r
<1>4. Len(s) \in DOMAIN s
  <2>1. Len(s) \in Nat /\ Len(s) > 0 /\ DOMAIN s = 1 .. Len(s)
    BY <1>3
  <2>2. ASSUME NEW k \in Nat, k > 0 PROVE k \in 1 .. k
    BY <2>2
  <2> QED BY <2>1, <2>2
<1> QED BY <1>1, <1>3, <1>4 DEF s, Top

\* Fewer listeners, in frames that note the same.
LEMMA OwnFewer ==
    ASSUME NEW ls, NEW max, OwnListeners(ls, max), NEW k, k \in [Node -> Seq(Listener)],
           \A n \in Node : At(k, n) \subseteq At(ls, n)
    PROVE  /\ OwnListeners(k, max)
           /\ \A ds : FramesNoted(ls, ds, max) => FramesNoted(k, ds, max)
           /\ \A ds, fs : FiredNoted(ls, ds, fs) => FiredNoted(k, ds, fs)
<1>1. OwnListeners(k, max)
  BY DEF OwnListeners
<1>2. ASSUME NEW ds, FramesNoted(ls, ds, max) PROVE FramesNoted(k, ds, max)
  BY <1>2 DEF FramesNoted, BatchNoted
<1>3. ASSUME NEW ds, NEW fs, FiredNoted(ls, ds, fs) PROVE FiredNoted(k, ds, fs)
  BY <1>3 DEF FiredNoted
<1> QED BY <1>1, <1>2, <1>3

LEMMA AddKeepsOnce ==
    ASSUME OnceInv, NEW n \in Node, NEW o \in ListenerOptions, AddEventListener(n, o)
    PROVE  OnceInv'
<1> DEFINE id == registered + 1
           l == [id |-> id, phase |-> ParseListenerOptions(o).phase,
                 once |-> ParseListenerOptions(o).once]
<1>1. /\ registered' = id /\ listeners' = Added(n, l) /\ fired' = fired /\ dispatches' = dispatches
  BY DEF AddEventListener
<1>2. registered \in Nat /\ id \in Nat /\ registered < id /\ registered <= id
  BY DEF OnceInv
<1>3. l \in Listener /\ l.id = id
  <2>1. ParseListenerOptions(o).phase \in Phases /\ ParseListenerOptions(o).once \in BOOLEAN
    BY DEF ParseListenerOptions, Phases
  <2> QED BY <1>2, <2>1 DEF Listener
<1> HIDE DEF l
<1>4. /\ listeners \in [Node -> Seq(Listener)] /\ \A m \in Node : \A k \in At(listeners, m) : k.id <= registered
  BY DEF OnceInv, OwnListeners
<1>5. \A m \in Node : \A k \in At(listeners, m) : k.id \in Nat /\ k.id # id
  <2> SUFFICES ASSUME NEW m \in Node, NEW k \in At(listeners, m) PROVE k.id \in Nat /\ k.id # id
    OBVIOUS
  <2>1. k \in Listener
    BY <1>4 DEF At, ToSet
  <2>2. k.id \in Nat
    BY <2>1 DEF Listener
  <2> QED BY <1>2, <1>4, <2>2
<1>6. listeners' = [listeners EXCEPT ![n] = Append(@, l)]
  BY <1>1, <1>3, <1>5 DEF Added, At
<1>7. listeners' \in [Node -> Seq(Listener)]
  BY <1>3, <1>4, <1>6
<1>8. \A m \in Node : \A k \in At(listeners', m) : k \in At(listeners, m) \/ (m = n /\ k = l)
  <2> SUFFICES ASSUME NEW m \in Node, NEW k \in At(listeners', m)
               PROVE  k \in At(listeners, m) \/ (m = n /\ k = l)
    OBVIOUS
  <2>1. CASE m # n
    BY <1>4, <1>6, <2>1 DEF At
  <2>2. CASE m = n
    <3> DEFINE s == listeners[n]
               t == Append(s, l)
    <3>1. s \in Seq(Listener)
      BY <1>4
    <3>2. listeners'[n] = t
      BY <1>4, <1>6
    <3> HIDE DEF s
    <3>3. \A i \in DOMAIN t : t[i] = l \/ (i \in DOMAIN s /\ t[i] = s[i])
      BY <1>3, <3>1
    <3> HIDE DEF t
    <3>4. PICK i \in DOMAIN t : k = t[i]
      BY <2>2, <3>2 DEF At, ToSet
    <3>5. k = l \/ k \in ToSet(s)
      BY <3>3, <3>4 DEF ToSet
    <3> QED BY <2>2, <3>5 DEF s, At
  <2> QED BY <2>1, <2>2
<1>9. OwnListeners(listeners', id)
  <2>1. \A m \in Node : \A k \in At(listeners', m) : k.id <= id
    <3> SUFFICES ASSUME NEW m \in Node, NEW k \in At(listeners', m) PROVE k.id <= id
      OBVIOUS
    <3>1. CASE k \in At(listeners, m)
      BY <1>2, <1>4, <1>5, <3>1
    <3>2. CASE k = l
      BY <1>2, <1>3, <3>2
    <3> QED BY <1>8, <3>1, <3>2
  <2>2. \A a, m \in Node : \A j \in At(listeners', a), k \in At(listeners', m) : j.id = k.id => a = m /\ j = k
    <3> SUFFICES ASSUME NEW a \in Node, NEW m \in Node, NEW j \in At(listeners', a),
                        NEW k \in At(listeners', m), j.id = k.id
                 PROVE  a = m /\ j = k
      OBVIOUS
    <3>1. j \in At(listeners, a) /\ k \in At(listeners, m) => a = m /\ j = k
      BY DEF OnceInv, OwnListeners
    <3> QED BY <1>3, <1>5, <1>8, <3>1
  <2> QED BY <1>7, <2>1, <2>2 DEF OwnListeners
<1>10. FramesNoted(listeners', dispatches, id)
  <2>1. FramesNoted(listeners, dispatches, registered)
    BY DEF OnceInv
  <2>2. dispatches \in Seq(Frames)
    BY <2>1 DEF FramesNoted
  <2>3. ASSUME NEW i \in DOMAIN dispatches
        PROVE  BatchNoted(listeners', dispatches[i]) /\ BatchBounded(dispatches[i], id)
    <3> DEFINE f == dispatches[i]
    <3>1. BatchNoted(listeners, f) /\ BatchBounded(f, registered) /\ f \in Frames
      BY <2>1, <2>2 DEF FramesNoted
    <3> HIDE DEF f
    <3>2. \A j \in DOMAIN f.batch : f.batch[j].id \in Nat
      <4>1. f.batch \in Seq(Listener)
        BY <3>1 DEF Frames
      <4>2. \A j \in DOMAIN f.batch : f.batch[j] \in Listener
        BY <4>1
      <4> QED BY <4>2 DEF Listener
    <3>3. \A j \in DOMAIN f.batch : f.batch[j].id <= id /\ f.batch[j].id # id
      BY <1>2, <3>1, <3>2 DEF BatchBounded
    <3>4. BatchNoted(listeners', f)
      BY <1>3, <1>8, <3>1, <3>3 DEF BatchNoted
    <3> QED BY <3>3, <3>4 DEF f, BatchBounded
  <2> HIDE DEF id
  <2> QED BY <2>2, <2>3 DEF FramesNoted
<1>11. FiredNoted(listeners', dispatches, fired)
  <2>1. id \notin fired
    BY <1>2 DEF OnceInv
  <2> QED BY <1>3, <1>8, <2>1 DEF FiredNoted, OnceInv
<1>12. fired \subseteq 0 .. id
  BY <1>2 DEF OnceInv
<1> QED BY <1>1, <1>2, <1>9, <1>10, <1>11, <1>12 DEF OnceInv

LEMMA RemoveKeepsOnce ==
    ASSUME OnceInv, NEW n \in Node, RemoveEventListener(n)
    PROVE  OnceInv'
<1>1. /\ listeners' = [listeners EXCEPT ![n] = <<>>]
      /\ UNCHANGED <<registered, fired, dispatches>>
  BY DEF RemoveEventListener
<1>2. listeners \in [Node -> Seq(Listener)]
  BY DEF OnceInv, OwnListeners
<1>3. listeners' \in [Node -> Seq(Listener)]
  <2>1. <<>> \in Seq(Listener)
    OBVIOUS
  <2> QED BY <1>1, <1>2, <2>1
<1>4. \A m \in Node : At(listeners', m) \subseteq At(listeners, m)
  <2>1. ToSet(<<>>) = {}
    BY DEF ToSet
  <2> QED BY <1>1, <1>2, <2>1 DEF At
<1>5. /\ OwnListeners(listeners, registered) /\ FramesNoted(listeners, dispatches, registered)
      /\ FiredNoted(listeners, dispatches, fired)
  BY DEF OnceInv
<1>6. /\ OwnListeners(listeners', registered) /\ FramesNoted(listeners', dispatches, registered)
      /\ FiredNoted(listeners', dispatches, fired)
  BY <1>3, <1>4, <1>5, OwnFewer
<1> QED BY <1>1, <1>6 DEF OnceInv

LEMMA DispatchKeepsOnce ==
    ASSUME OnceInv, Parents(parent), NEW n \in Node, DispatchEvent(n)
    PROVE  OnceInv'
<1> DEFINE f == Frame(DispatchPath(n))
           ds == Append(dispatches, f)
<1>1. dispatches' = ds /\ UNCHANGED <<listeners, registered, fired>>
  BY DEF DispatchEvent
<1>2. f \in Frames /\ f.batch = <<>>
  <2>1. DispatchPath(n) \in Seq(Visit)
    BY PathFacts
  <2>2. <<>> \in Seq(Listener) /\ 0 \in Nat
    OBVIOUS
  <2> QED BY <2>1, <2>2 DEF Frame, Frames
<1> HIDE DEF f
<1>3. dispatches \in Seq(Frames) /\ \A i \in DOMAIN dispatches :
        BatchNoted(listeners, dispatches[i]) /\ BatchBounded(dispatches[i], registered)
  BY DEF OnceInv, FramesNoted
<1>4. /\ ds \in Seq(Frames)
      /\ \A i \in DOMAIN ds : ds[i] = f \/ (i \in DOMAIN dispatches /\ ds[i] = dispatches[i])
      /\ \A i \in DOMAIN dispatches : i \in DOMAIN ds /\ ds[i] = dispatches[i]
  BY <1>2, <1>3
<1> HIDE DEF ds
<1>5. BatchNoted(listeners, f) /\ BatchBounded(f, registered)
  <2>1. DOMAIN f.batch = {}
    BY <1>2
  <2> QED BY <2>1 DEF BatchNoted, BatchBounded
<1>6. FramesNoted(listeners, ds, registered)
  BY <1>3, <1>4, <1>5 DEF FramesNoted
<1>7. FiredNoted(listeners, ds, fired)
  <2> SUFFICES ASSUME NEW m \in Node, NEW l \in At(listeners, m), l.once, l.id \in fired
               PROVE  \E i \in DOMAIN ds : ds[i].at = m /\ l.id \in ds[i].once
    BY DEF FiredNoted
  <2>1. PICK i \in DOMAIN dispatches : dispatches[i].at = m /\ l.id \in dispatches[i].once
    BY DEF FiredNoted, OnceInv
  <2> QED BY <1>4, <2>1
<1> QED BY <1>1, <1>6, <1>7 DEF OnceInv

\* The frame at the top becomes f: what has fired is noted in f, or elsewhere.
LEMMA FrameStep ==
    ASSUME OnceInv, NEW f \in Frames, dispatches # <<>>, SetTop(f), NEW ls, NEW fs,
           OwnListeners(ls, registered), \A n \in Node : At(ls, n) \subseteq At(listeners, n),
           BatchNoted(ls, f), BatchBounded(f, registered),
           \A n \in Node : \A l \in At(ls, n) : l.once /\ l.id \in fs =>
               \/ f.at = n /\ l.id \in f.once
               \/ l.id \in fired /\ ~ (Top.at = n /\ l.id \in Top.once)
    PROVE  FramesNoted(ls, dispatches', registered) /\ FiredNoted(ls, dispatches', fs)
<1>1. /\ FramesNoted(listeners, dispatches, registered) /\ FiredNoted(listeners, dispatches, fired)
      /\ OwnListeners(listeners, registered) /\ dispatches \in Seq(Frames)
  BY DEF OnceInv, FramesNoted
<1>2. FramesNoted(ls, dispatches, registered)
  <2>1. ls \in [Node -> Seq(Listener)]
    BY DEF OwnListeners
  <2> QED BY <1>1, <2>1, OwnFewer
<1>3. /\ Len(dispatches) \in Nat /\ Len(dispatches) \in DOMAIN dispatches
      /\ Top = dispatches[Len(dispatches)] /\ Top \in Frames
      /\ dispatches' \in Seq(Frames) /\ DOMAIN dispatches' = DOMAIN dispatches
      /\ \A i \in DOMAIN dispatches :
            dispatches'[i] = IF i = Len(dispatches) THEN f ELSE dispatches[i]
  BY <1>1, TopStep
<1>4. FramesNoted(ls, dispatches', registered)
  BY <1>2, <1>3 DEF FramesNoted
<1>5. FiredNoted(ls, dispatches', fs)
  <2> SUFFICES ASSUME NEW n \in Node, NEW l \in At(ls, n), l.once, l.id \in fs
               PROVE  \E i \in DOMAIN dispatches' : dispatches'[i].at = n /\ l.id \in dispatches'[i].once
    BY DEF FiredNoted
  <2>1. CASE f.at = n /\ l.id \in f.once
    BY <1>3, <2>1
  <2>2. CASE l.id \in fired /\ ~ (Top.at = n /\ l.id \in Top.once)
    <3>1. l \in At(listeners, n)
      OBVIOUS
    <3>2. PICK i \in DOMAIN dispatches : dispatches[i].at = n /\ l.id \in dispatches[i].once
      BY <1>1, <2>2, <3>1 DEF FiredNoted
    <3>3. i # Len(dispatches)
      BY <1>3, <2>2, <3>2
    <3> QED BY <1>3, <3>2, <3>3
  <2> QED BY <2>1, <2>2
<1> QED BY <1>4, <1>5

LEMMA MatchingFacts ==
    ASSUME NEW n \in Node, listeners \in [Node -> Seq(Listener)], NEW phase
    PROVE  /\ Matching(n, phase) \in Seq(Listener)
           /\ ToSet(Matching(n, phase)) \subseteq At(listeners, n)
<1> DEFINE s == listeners[n]
           S == {l \in ToSet(s) : phase \in {l.phase, "target"}}
<1>1. s \in Seq(Listener)
  OBVIOUS
<1>2. Matching(n, phase) = Retained(s, S)
  BY DEF Matching
<1> HIDE DEF S
<1>22. s = listeners[n]
  OBVIOUS
<1> HIDE DEF s
<1>3. Retained(s, S) \in Seq(Listener) /\ ToSet(Retained(s, S)) = ToSet(s) \cap S
  BY <1>1, RetainedMembers
<1> QED BY <1>2, <1>22, <1>3 DEF At

LEMMA TopTyped ==
    ASSUME dispatches \in Seq(Frames), dispatches # <<>>
    PROVE  Top \in Frames /\ Len(dispatches) \in DOMAIN dispatches /\ Top = dispatches[Len(dispatches)]
<1>1. /\ Len(dispatches) \in Nat /\ Len(dispatches) > 0 /\ DOMAIN dispatches = 1 .. Len(dispatches)
  OBVIOUS
<1>2. Top = dispatches[Len(dispatches)]
  BY DEF Top, Last
<1> QED BY <1>1, <1>2

LEMMA ReachKeepsOnce ==
    ASSUME OnceInv, Reach
    PROVE  OnceInv'
<1> DEFINE v == Head(Top.path)
           m == Matching(v.node, v.phase)
           o == {m[i].id : i \in {j \in DOMAIN m : m[j].once}}
           f == [Top EXCEPT !.path = Tail(@), !.at = v.node, !.batch = m, !.once = o]
<1>1. /\ dispatches # <<>> /\ Top.at = NoNode /\ Top.path # <<>> /\ SetTop(f)
      /\ UNCHANGED <<listeners, registered, fired>>
  BY DEF Reach, Dispatching
<1>2. dispatches \in Seq(Frames) /\ OwnListeners(listeners, registered) /\ listeners \in [Node -> Seq(Listener)]
  BY DEF OnceInv, FramesNoted, OwnListeners
<1>3. Top \in Frames
  BY <1>1, <1>2, TopTyped
<1>4. Top.path \in Seq(Visit)
  BY <1>3 DEF Frames
<1>5. v \in Visit /\ Tail(Top.path) \in Seq(Visit)
  BY <1>1, <1>4
<1>6. v.node \in Node
  BY <1>5 DEF Visit
<1> HIDE DEF v
<1>7. m \in Seq(Listener) /\ ToSet(m) \subseteq At(listeners, v.node)
  BY <1>2, <1>6, MatchingFacts
<1> HIDE DEF m
<1>8. \A i \in DOMAIN m : m[i] \in At(listeners, v.node) /\ m[i] \in Listener
  BY <1>7 DEF ToSet
<1>9. \A i \in DOMAIN m : m[i].id \in Nat /\ m[i].id <= registered
  <2>1. \A i \in DOMAIN m : m[i].id \in Nat
    BY <1>8 DEF Listener
  <2> QED BY <1>2, <1>6, <1>8, <2>1 DEF OwnListeners
<1>10. o \in SUBSET Nat /\ \A i \in DOMAIN m : m[i].once => m[i].id \in o
  BY <1>9
<1> HIDE DEF o
<1>11. f \in Frames /\ f.at = v.node /\ f.batch = m /\ f.once = o
  BY <1>3, <1>5, <1>6, <1>7, <1>10 DEF Frames
<1> HIDE DEF f
<1>12. BatchNoted(listeners, f)
  <2> SUFFICES ASSUME NEW j \in DOMAIN m, NEW n \in Node, NEW l \in At(listeners, n), l.id = m[j].id
               PROVE  n = v.node /\ (l.once => l.id \in o)
    BY <1>11 DEF BatchNoted
  <2>1. n = v.node /\ l = m[j]
    BY <1>2, <1>6, <1>8 DEF OwnListeners
  <2> QED BY <1>10, <2>1
<1>13. BatchBounded(f, registered)
  BY <1>9, <1>11 DEF BatchBounded
<1>14. \A n \in Node : \A l \in At(listeners, n) : l.once /\ l.id \in fired =>
               \/ f.at = n /\ l.id \in f.once
               \/ l.id \in fired /\ ~ (Top.at = n /\ l.id \in Top.once)
  BY <1>1, NodeFacts
<1>15. \A n \in Node : At(listeners, n) \subseteq At(listeners, n)
  OBVIOUS
<1>16. FramesNoted(listeners, dispatches', registered) /\ FiredNoted(listeners, dispatches', fired)
  BY <1>1, <1>2, <1>11, <1>12, <1>13, <1>14, <1>15, FrameStep
<1> QED BY <1>1, <1>16 DEF OnceInv

LEMMA InvokeKeepsOnce ==
    ASSUME OnceInv, Invoke
    PROVE  OnceInv'
<1> DEFINE b == Head(Top.batch)
           f == [Top EXCEPT !.batch = Tail(@), !.running = b.id]
<1>1. /\ dispatches # <<>> /\ Top.batch # <<>> /\ SetTop(f) /\ fired' = fired \cup {b.id}
      /\ UNCHANGED <<listeners, registered>>
  BY DEF Invoke, Dispatching
<1>2. /\ dispatches \in Seq(Frames) /\ OwnListeners(listeners, registered)
      /\ \A i \in DOMAIN dispatches : BatchNoted(listeners, dispatches[i]) /\ BatchBounded(dispatches[i], registered)
      /\ registered \in Nat /\ fired \subseteq 0 .. registered
  BY DEF OnceInv, FramesNoted
<1>3. /\ Top \in Frames /\ Len(dispatches) \in DOMAIN dispatches /\ Top = dispatches[Len(dispatches)]
  BY <1>1, <1>2, TopTyped
<1>4. BatchNoted(listeners, Top) /\ BatchBounded(Top, registered)
  BY <1>2, <1>3
<1> DEFINE s == Top.batch
<1>5. s \in Seq(Listener) /\ s # <<>>
  BY <1>1, <1>3 DEF Frames
<1>55. s = Top.batch
  OBVIOUS
<1> HIDE DEF s
<1>6. /\ Tail(s) \in Seq(Listener) /\ Head(s) = s[1] /\ 1 \in DOMAIN s /\ s[1] \in Listener
      /\ \A i \in DOMAIN Tail(s) : i + 1 \in DOMAIN s /\ Tail(s)[i] = s[i + 1]
  BY <1>5
<1>7. b = s[1] /\ b \in Listener
  BY <1>55, <1>6
<1>8. b.id \in Nat
  BY <1>7 DEF Listener
<1> HIDE DEF b
<1>9. f \in Frames /\ f.at = Top.at /\ f.once = Top.once /\ f.batch = Tail(s)
  BY <1>3, <1>55, <1>6, <1>8 DEF Frames
<1> HIDE DEF f
<1>10. BatchNoted(listeners, f) /\ BatchBounded(f, registered)
  BY <1>4, <1>55, <1>6, <1>9 DEF BatchNoted, BatchBounded
<1>11. /\ b.id <= registered
       /\ \A n \in Node : \A l \in At(listeners, n) : l.id = b.id => n = Top.at /\ (l.once => l.id \in Top.once)
  BY <1>4, <1>55, <1>6, <1>7 DEF BatchNoted, BatchBounded
<1>12. \A n \in Node : \A l \in At(listeners, n) : l.once /\ l.id \in fired' =>
               \/ f.at = n /\ l.id \in f.once
               \/ l.id \in fired /\ ~ (Top.at = n /\ l.id \in Top.once)
  BY <1>1, <1>9, <1>11
<1>13. \A n \in Node : At(listeners, n) \subseteq At(listeners, n)
  OBVIOUS
<1>14. FramesNoted(listeners, dispatches', registered) /\ FiredNoted(listeners, dispatches', fired')
  BY <1>1, <1>2, <1>9, <1>10, <1>12, <1>13, FrameStep
<1>15. fired' \subseteq 0 .. registered
  <2>1. b.id \in 0 .. registered
    BY <1>2, <1>8, <1>11
  <2> QED BY <1>1, <1>2, <2>1
<1> QED BY <1>1, <1>2, <1>14, <1>15 DEF OnceInv

LEMMA ReturnKeepsOnce ==
    ASSUME OnceInv, HandlerReturns
    PROVE  OnceInv'
<1> DEFINE f == [Top EXCEPT !.running = 0]
<1>1. /\ dispatches # <<>> /\ SetTop(f) /\ UNCHANGED <<listeners, registered, fired>>
  BY DEF HandlerReturns
<1>2. /\ dispatches \in Seq(Frames) /\ OwnListeners(listeners, registered)
      /\ \A i \in DOMAIN dispatches : BatchNoted(listeners, dispatches[i]) /\ BatchBounded(dispatches[i], registered)
  BY DEF OnceInv, FramesNoted
<1>3. Top \in Frames /\ BatchNoted(listeners, Top) /\ BatchBounded(Top, registered)
  BY <1>1, <1>2, TopTyped
<1>4. f \in Frames /\ f.at = Top.at /\ f.once = Top.once /\ f.batch = Top.batch
  BY <1>3 DEF Frames
<1> HIDE DEF f
<1>5. BatchNoted(listeners, f) /\ BatchBounded(f, registered)
  BY <1>3, <1>4 DEF BatchNoted, BatchBounded
<1>6. \A n \in Node : \A l \in At(listeners, n) : l.once /\ l.id \in fired =>
               \/ f.at = n /\ l.id \in f.once
               \/ l.id \in fired /\ ~ (Top.at = n /\ l.id \in Top.once)
  BY <1>4
<1>7. \A n \in Node : At(listeners, n) \subseteq At(listeners, n)
  OBVIOUS
<1>8. FramesNoted(listeners, dispatches', registered) /\ FiredNoted(listeners, dispatches', fired)
  BY <1>1, <1>2, <1>4, <1>5, <1>6, <1>7, FrameStep
<1> QED BY <1>1, <1>8 DEF OnceInv

LEMMA LeaveKeepsOnce ==
    ASSUME OnceInv, Leave
    PROVE  OnceInv'
<1> DEFINE f == [Top EXCEPT !.at = NoNode, !.once = {}]
           n == Top.at
           s == listeners[n]
           S == {l \in ToSet(s) : ~(l.once /\ l.id \in Top.once)}
           r == Retained(s, S)
<1>1. /\ dispatches # <<>> /\ n # NoNode /\ Top.batch = <<>> /\ SetTop(f)
      /\ listeners' = [listeners EXCEPT ![n] = r]
      /\ UNCHANGED <<registered, fired>>
  BY DEF Leave, Dispatching
<1>2. /\ dispatches \in Seq(Frames) /\ OwnListeners(listeners, registered)
      /\ FramesNoted(listeners, dispatches, registered) /\ FiredNoted(listeners, dispatches, fired)
      /\ listeners \in [Node -> Seq(Listener)]
  BY DEF OnceInv, FramesNoted, OwnListeners
<1>3. Top \in Frames
  BY <1>1, <1>2, TopTyped
<1>4. n \in Node
  BY <1>1, <1>3 DEF Frames
<1> HIDE DEF n
<1>5. s \in Seq(Listener) /\ s = listeners[n]
  BY <1>2, <1>4
<1>6. \A l \in S : ~(l.once /\ l.id \in Top.once)
  OBVIOUS
<1> HIDE DEF s, S
<1>7. r \in Seq(Listener) /\ ToSet(r) = ToSet(s) \cap S
  BY <1>5, RetainedMembers
<1> HIDE DEF r
<1>8. listeners' \in [Node -> Seq(Listener)] /\ \A m \in Node : listeners'[m] = IF m = n THEN r ELSE listeners[m]
  BY <1>1, <1>2, <1>4, <1>7
<1>9. \A m \in Node : At(listeners', m) \subseteq At(listeners, m)
  BY <1>5, <1>7, <1>8 DEF At
<1>10. \A l \in At(listeners', n) : ~(l.once /\ l.id \in Top.once)
  BY <1>4, <1>6, <1>7, <1>8 DEF At
<1>11. OwnListeners(listeners', registered)
  BY <1>2, <1>8, <1>9, OwnFewer
<1>12. f \in Frames /\ f.at = NoNode /\ f.once = {} /\ f.batch = <<>>
  BY <1>1, <1>3 DEF Frames
<1> HIDE DEF f
<1>13. BatchNoted(listeners', f) /\ BatchBounded(f, registered)
  <2>1. DOMAIN f.batch = {}
    BY <1>12
  <2> QED BY <2>1 DEF BatchNoted, BatchBounded
<1>14. \A m \in Node : \A l \in At(listeners', m) : l.once /\ l.id \in fired =>
               \/ f.at = m /\ l.id \in f.once
               \/ l.id \in fired /\ ~ (Top.at = m /\ l.id \in Top.once)
  BY <1>10 DEF n
<1>15. FramesNoted(listeners', dispatches', registered) /\ FiredNoted(listeners', dispatches', fired)
  <2> DEFINE ls == listeners'
  <2>1. /\ OwnListeners(ls, registered) /\ \A m \in Node : At(ls, m) \subseteq At(listeners, m)
        /\ BatchNoted(ls, f)
        /\ \A m \in Node : \A l \in At(ls, m) : l.once /\ l.id \in fired =>
               \/ f.at = m /\ l.id \in f.once
               \/ l.id \in fired /\ ~ (Top.at = m /\ l.id \in Top.once)
    BY <1>9, <1>11, <1>13, <1>14
  <2> HIDE DEF ls
  <2>2. FramesNoted(ls, dispatches', registered) /\ FiredNoted(ls, dispatches', fired)
    BY <1>1, <1>12, <1>13, <2>1, FrameStep
  <2> QED BY <2>2 DEF ls
<1>16. registered \in Nat /\ fired \subseteq 0 .. registered
  BY DEF OnceInv
<1> QED BY <1>1, <1>11, <1>15, <1>16 DEF OnceInv

LEMMA EndKeepsOnce ==
    ASSUME OnceInv, DispatchEnds
    PROVE  OnceInv'
<1>1. /\ dispatches # <<>> /\ Top.at = NoNode /\ dispatches' = Front(dispatches)
      /\ UNCHANGED <<listeners, registered, fired>>
  BY DEF DispatchEnds, Dispatching
<1>2. /\ dispatches \in Seq(Frames) /\ FiredNoted(listeners, dispatches, fired)
      /\ \A i \in DOMAIN dispatches : BatchNoted(listeners, dispatches[i]) /\ BatchBounded(dispatches[i], registered)
  BY DEF OnceInv, FramesNoted
<1>3. Top = dispatches[Len(dispatches)]
  BY <1>1, <1>2, TopTyped
<1> DEFINE s == dispatches
           r == Front(s)
<1>4. /\ Len(s) \in Nat /\ Len(s) > 0 /\ DOMAIN s = 1 .. Len(s)
  BY <1>1, <1>2
<1>5. r \in Seq(Frames) /\ Len(r) = Len(s) - 1 /\ DOMAIN r = 1 .. Len(s) - 1 /\ \A i \in 1 .. Len(s) - 1 : r[i] = s[i]
  BY <1>2, <1>4 DEF Front
<1>6. r = dispatches'
  BY <1>1
<1>7. s = dispatches
  OBVIOUS
<1> HIDE DEF r, s
<1>8. \A i \in DOMAIN r : i \in DOMAIN s /\ r[i] = s[i]
  BY <1>4, <1>5
<1>9. FramesNoted(listeners, r, registered)
  BY <1>2, <1>5, <1>7, <1>8 DEF FramesNoted
<1>10. FiredNoted(listeners, r, fired)
  <2> SUFFICES ASSUME NEW n \in Node, NEW l \in At(listeners, n), l.once, l.id \in fired
               PROVE  \E i \in DOMAIN r : r[i].at = n /\ l.id \in r[i].once
    BY DEF FiredNoted
  <2>1. PICK i \in DOMAIN s : s[i].at = n /\ l.id \in s[i].once
    BY <1>2, <1>7 DEF FiredNoted
  <2>2. n # NoNode
    BY NodeFacts
  <2>3. i # Len(s)
    BY <1>1, <1>3, <1>7, <2>1, <2>2
  <2>4. i \in DOMAIN r
    BY <1>4, <1>5, <2>3
  <2> QED BY <1>8, <2>1, <2>4
<1> QED BY <1>1, <1>6, <1>9, <1>10 DEF OnceInv

LEMMA OnceNext ==
    TreeInv /\ OnceInv /\ [Next]_vars => OnceInv'
<1> SUFFICES ASSUME TreeInv, OnceInv, [Next]_vars PROVE OnceInv'
  OBVIOUS
<1>0. Made \subseteq Node /\ Parents(parent)
  BY MadeNodes DEF TreeInv
<1>1. CASE UNCHANGED eventVars
  BY <1>1 DEF eventVars, OnceInv
<1>2. CASE EventStep
  <2>1. ASSUME NEW n \in Made, NEW o \in ListenerOptions, AddEventListener(n, o) PROVE OnceInv'
    BY <1>0, <2>1, AddKeepsOnce
  <2>2. ASSUME NEW n \in Made, RemoveEventListener(n) PROVE OnceInv'
    BY <1>0, <2>2, RemoveKeepsOnce
  <2>3. ASSUME NEW n \in Made, DispatchEvent(n) PROVE OnceInv'
    BY <1>0, <2>3, DispatchKeepsOnce
  <2> QED BY <1>2, <2>1, <2>2, <2>3, ReachKeepsOnce, InvokeKeepsOnce, ReturnKeepsOnce,
             LeaveKeepsOnce, EndKeepsOnce DEF EventStep
<1>3. CASE UNCHANGED vars
  BY <1>1, <1>3 DEF vars
<1> QED BY <1>1, <1>2, <1>3 DEF Next

\* A listener that is to fire once is gone after it fired, for any number of
\* nodes, listeners and nested dispatches.
THEOREM OnceStaysRemoved == Spec => []OnceRemoved
<1>1. Init /\ EventsInit => TreeInv /\ OnceInv
  <2> SUFFICES ASSUME Init, EventsInit PROVE OnceInv
    BY TreeInit
  <2>1. listeners = [n \in Node |-> <<>>] /\ registered = 0 /\ fired = {} /\ dispatches = <<>>
    BY DEF EventsInit
  <2>2. \A n \in Node : At(listeners, n) = {}
    BY <2>1 DEF At, ToSet
  <2>3. listeners \in [Node -> Seq(Listener)]
    BY <2>1
  <2>4. OwnListeners(listeners, registered)
    BY <2>2, <2>3 DEF OwnListeners
  <2>5. FramesNoted(listeners, dispatches, registered)
    BY <2>1 DEF FramesNoted
  <2>6. FiredNoted(listeners, dispatches, fired)
    BY <2>2 DEF FiredNoted
  <2> QED BY <2>1, <2>4, <2>5, <2>6 DEF OnceInv
<1>2. TreeInv /\ OnceInv /\ [Next]_vars => (TreeInv /\ OnceInv)'
  BY TreeNext, OnceNext
<1>3. TreeInv /\ OnceInv => OnceRemoved
  BY OnceGives
<1> QED BY <1>1, <1>2, <1>3, PTL DEF Spec

-----------------------------------------------------------------------------
(* What belongs to a thread.                                               *)

\* A promise of a page, and who answered it.
GoodPromise(p) ==
    /\ given # NoClient => p.by = given
    /\ p.outcome # Rejected =>
         p.by # NoClient /\ \E reply \in Replies : p.outcome = ResponseOf(reply)

FetchInv ==
    /\ given # NoClient => client = given
    /\ promises \in Seq(ToSet(promises))
    /\ \A p \in ToSet(promises) : GoodPromise(p)

LEMMA FetchInitInv == FetchInit => FetchInv
<1> SUFFICES ASSUME FetchInit PROVE FetchInv
  OBVIOUS
<1>1. promises = <<>> /\ given = NoClient
  BY DEF FetchInit
<1>2. ToSet(<<>>) = {} /\ <<>> \in Seq({})
  <2>1. DOMAIN <<>> = {}
    OBVIOUS
  <2> QED BY <2>1 DEF ToSet
<1> QED BY <1>1, <1>2 DEF FetchInv

LEMMA FetchNextInv == FetchInv /\ [FetchNext]_fetchVars => FetchInv'
<1> SUFFICES ASSUME FetchInv, [FetchNext]_fetchVars PROVE FetchInv'
  OBVIOUS
<1>1. ASSUME NEW url, NEW c, Register(url, c) PROVE FetchInv'
  <2>1. promises' = <<>> /\ given' = c /\ (c # NoClient => client' = c)
    BY <1>1 DEF Register, Registered
  <2>2. ToSet(<<>>) = {} /\ <<>> \in Seq({})
    <3>1. DOMAIN <<>> = {}
      OBVIOUS
    <3> QED BY <3>1 DEF ToSet
  <2> QED BY <2>1, <2>2 DEF FetchInv
<1>2. ASSUME NEW input, NEW options, DoFetch(input, options) PROVE FetchInv'
  <2>1. PICK outcome \in Outcomes :
           promises' = Append(promises, [asked |-> ResolveUrl(input), by |-> client,
                                         outcome |-> outcome])
    BY <1>2 DEF DoFetch
  <2>2. client' = client /\ given' = given
    BY <1>2 DEF DoFetch
  <2> DEFINE e == [asked |-> ResolveUrl(input), by |-> client, outcome |-> outcome]
             U == ToSet(promises) \cup {e}
  <2>3. e.by = client /\ e.outcome = outcome
    OBVIOUS
  <2>4. GoodPromise(e)
    <3>1. outcome # Rejected => client # NoClient /\ \E reply \in Replies : outcome = ResponseOf(reply)
      BY DEF Outcomes
    <3> HIDE DEF e
    <3> QED BY <2>3, <3>1 DEF GoodPromise, FetchInv
  <2> HIDE DEF e
  <2>5. promises \in Seq(U) /\ e \in U
    BY DEF FetchInv
  <2>6. promises' = Append(promises, e)
    BY <2>1 DEF e
  <2>7. promises' \in Seq(U) /\ ToSet(promises') = U
    <3>1. /\ promises' \in Seq(U) /\ DOMAIN promises' = 1 .. Len(promises) + 1 /\ Len(promises) \in Nat
          /\ \A i \in 1 .. Len(promises) : promises'[i] = promises[i]
          /\ promises'[Len(promises) + 1] = e /\ DOMAIN promises = 1 .. Len(promises)
      BY <2>5, <2>6
    <3>2. ToSet(promises) \subseteq ToSet(promises') /\ e \in ToSet(promises')
      BY <3>1 DEF ToSet
    <3>3. ToSet(promises') \subseteq U
      BY <3>1 DEF ToSet
    <3> QED BY <3>1, <3>2, <3>3
  <2>8. \A p \in U : GoodPromise(p)'
    BY <2>2, <2>4 DEF FetchInv, GoodPromise
  <2> QED BY <2>2, <2>7, <2>8 DEF FetchInv
<1>3. CASE UNCHANGED fetchVars
  BY <1>3 DEF fetchVars, FetchInv, GoodPromise
<1> QED BY <1>1, <1>2, <1>3 DEF FetchNext

LEMMA ResponsesDoAgree == FetchInv => ResponsesAgree
<1> SUFFICES ASSUME FetchInv, NEW i \in DOMAIN promises
             PROVE  /\ given # NoClient => promises[i].by = given
                    /\ promises[i].outcome # Rejected =>
                         LET r == promises[i].outcome  each == ToSet(HeaderForEach(r)) IN
                         /\ promises[i].by # NoClient
                         /\ \A e \in ToSet(r.net.headers) :
                               /\ HeaderHas(r, e.name)
                               /\ <<HeaderGet(r, e.name), e.name>> \in each
  BY DEF ResponsesAgree
<1> DEFINE r == promises[i].outcome
           hs == r.net.headers
<1>1. promises[i] \in ToSet(promises) /\ GoodPromise(promises[i])
  BY DEF FetchInv, ToSet
<1>2. (given # NoClient => promises[i].by = given) /\ (r # Rejected => promises[i].by # NoClient)
  BY <1>1 DEF GoodPromise
<1>3. ASSUME r # Rejected, NEW e \in ToSet(hs)
      PROVE  HeaderHas(r, e.name) /\ <<HeaderGet(r, e.name), e.name>> \in ToSet(HeaderForEach(r))
  <2>1. PICK reply \in Replies : r = ResponseOf(reply)
    BY <1>1, <1>3 DEF GoodPromise
  <2>2. hs \in Seq(ToSet(hs))
    BY <2>1, FetchAssumption DEF ResponseOf
  <2>3. PICK k \in DOMAIN hs : hs[k] = e
    BY <1>3 DEF ToSet
  <2> HIDE DEF r
  <2>4. HeaderHas(r, e.name)
    BY <2>3 DEF HeaderHas, Matches
  <2> DEFINE N == {h \in ToSet(hs) : Matches(h, e.name)}
             hits == Retained(hs, N)
  <2>5. hits \in Seq(ToSet(hs)) /\ ToSet(hits) = ToSet(hs) \cap N
    <3> DEFINE z == hs
    <3>1. z \in Seq(ToSet(hs))
      BY <2>2
    <3> HIDE DEF z, N
    <3>2. Retained(z, N) \in Seq(ToSet(hs)) /\ ToSet(Retained(z, N)) = ToSet(z) \cap N
      BY <3>1, RetainedMembers
    <3> QED BY <3>2 DEF z
  <2>6. e \in N
    BY <1>3 DEF Matches
  <2> HIDE DEF hits
  <2>7. hits # <<>> /\ Head(hits) \in N
    <3>1. Len(hits) \in Nat /\ DOMAIN hits = 1 .. Len(hits) /\ e \in ToSet(hits)
      BY <2>5, <2>6, <1>3
    <3>2. 1 \in DOMAIN hits
      BY <3>1 DEF ToSet
    <3>3. hits # <<>> /\ Head(hits) = hits[1]
      BY <2>5, <3>1, <3>2
    <3> QED BY <2>5, <3>2, <3>3 DEF ToSet
  <2>8. HeaderGet(r, e.name) = Head(hits).value
    BY <2>7 DEF HeaderGet, hits
  <2>9. PICK j \in DOMAIN hs : hs[j] = Head(hits)
    BY <2>7 DEF ToSet
  <2>10. hs[j].name = e.name
    BY <2>7, <2>9 DEF Matches
  <2>11. HeaderForEach(r)[j] = <<HeaderGet(r, e.name), e.name>> /\ j \in DOMAIN HeaderForEach(r)
    BY <2>8, <2>9, <2>10 DEF HeaderForEach
  <2> QED BY <2>4, <2>11 DEF ToSet
<1> HIDE DEF r
<1> QED BY <1>2, <1>3 DEF r

-----------------------------------------------------------------------------
(* The entries of a FormData object.                                        *)

FormEntries == EntryNames \X EntryValues

\* The objects are maps from names to what was appended under them.
EntriesInv ==
    /\ stores \in Seq(Seq(FormEntries))
    /\ kept \in Seq([EntryNames -> Seq(EntryValues)])
    /\ Len(kept) = Len(stores)
    /\ \A d \in DOMAIN stores, name \in EntryNames : ValuesOf(stores[d], name) = kept[d][name]

\* One entry more is one value more of its name.
LEMMA ValuesAppended ==
    ASSUME NEW s \in Seq(FormEntries), NEW name \in EntryNames, NEW value \in EntryValues,
           NEW other \in EntryNames
    PROVE  /\ Append(s, <<name, value>>) \in Seq(FormEntries)
           /\ ValuesOf(s, other) \in Seq(EntryValues)
           /\ ValuesOf(Append(s, <<name, value>>), other) =
                IF other = name THEN Append(ValuesOf(s, other), value) ELSE ValuesOf(s, other)
<1> DEFINE x == <<name, value>>
           N == {other} \X EntryValues
           h == Retained(s, N)
           g == Retained(Append(s, x), N)
<1>1. x \in FormEntries /\ Append(s, x) \in Seq(FormEntries)
  BY DEF FormEntries
<1>2. x \in N <=> other = name
  OBVIOUS
<1>3. x[2] = value
  OBVIOUS
<1> HIDE DEF x, N
<1>4. h \in Seq(FormEntries) /\ g = IF x \in N THEN Append(h, x) ELSE h
  BY <1>1, RetainedMembers, RetainedAppend
<1>5. ValuesOf(s, other) = [i \in DOMAIN h |-> h[i][2]]
  BY DEF ValuesOf, EntriesOf, N
<1>6. ValuesOf(Append(s, x), other) = [i \in DOMAIN g |-> g[i][2]]
  BY DEF ValuesOf, EntriesOf, N
<1> HIDE DEF h, g
<1>7. \A i \in DOMAIN h : h[i][2] \in EntryValues
  <2>1. \A i \in DOMAIN h : h[i] \in FormEntries
    BY <1>4
  <2> QED BY <2>1 DEF FormEntries
<1>8. [i \in DOMAIN h |-> h[i][2]] \in Seq(EntryValues)
  BY <1>4, <1>7
<1>9. CASE other = name
  <2>1. g = Append(h, x)
    BY <1>2, <1>4, <1>9
  <2>2. [i \in DOMAIN g |-> g[i][2]] = Append([i \in DOMAIN h |-> h[i][2]], value)
    <3> DEFINE v == [i \in DOMAIN h |-> h[i][2]]
               w == [i \in DOMAIN g |-> g[i][2]]
               u == Append(v, value)
    <3>1. /\ Len(h) \in Nat /\ DOMAIN h = 1 .. Len(h) /\ DOMAIN g = 1 .. Len(h) + 1
          /\ g[Len(h) + 1] = x /\ \A i \in 1 .. Len(h) : g[i] = h[i]
      BY <1>1, <1>4, <2>1
    <3>2. v \in Seq(EntryValues) /\ Len(v) = Len(h) /\ \A i \in 1 .. Len(h) : v[i] = h[i][2]
      BY <1>8, <3>1
    <3>3. DOMAIN w = 1 .. Len(h) + 1 /\ \A i \in 1 .. Len(h) + 1 : w[i] = g[i][2]
      BY <3>1
    <3> HIDE DEF v
    <3>4. /\ u \in Seq(EntryValues) /\ Len(u) = Len(h) + 1 /\ u[Len(h) + 1] = value
          /\ \A i \in 1 .. Len(h) : u[i] = v[i]
      BY <3>2
    <3>5. w = [i \in 1 .. Len(h) + 1 |-> w[i]]
      BY <3>1
    <3> HIDE DEF u, w
    <3>6. \A i \in 1 .. Len(h) + 1 : w[i] = u[i]
      <4> TAKE i \in 1 .. Len(h) + 1
      <4>1. i \in 1 .. Len(h) \/ i = Len(h) + 1
        BY <3>1
      <4> QED BY <1>3, <3>1, <3>2, <3>3, <3>4, <4>1
    <3>7. u = [i \in 1 .. Len(h) + 1 |-> u[i]]
      BY <3>4
    <3>8. w = u
      BY <3>5, <3>6, <3>7
    <3> QED BY <3>8 DEF u, v, w
  <2> QED BY <1>1, <1>5, <1>6, <1>8, <1>9, <2>2 DEF x
<1>10. CASE other # name
  <2>1. g = h
    BY <1>2, <1>4, <1>10
  <2> QED BY <1>1, <1>5, <1>6, <1>8, <1>10, <2>1 DEF x
<1> QED BY <1>9, <1>10

\* What is not under a name.
LEMMA OthersKept ==
    ASSUME NEW s \in Seq(FormEntries), NEW name \in EntryNames, NEW other \in EntryNames
    PROVE  LET t == Retained(s, (EntryNames \ {name}) \X EntryValues)
           IN  /\ t \in Seq(FormEntries)
               /\ ValuesOf(t, other) = IF other = name THEN <<>> ELSE ValuesOf(s, other)
<1> DEFINE M == (EntryNames \ {name}) \X EntryValues
           N == {other} \X EntryValues
           t == Retained(s, M)
<1>1. M \cap N = IF other = name THEN {} ELSE N
  OBVIOUS
<1> HIDE DEF M, N
<1>2. t \in Seq(FormEntries)
  BY RetainedMembers
<1>3. Retained(t, N) = Retained(s, M \cap N)
  BY RetainedTwice
<1>4. ValuesOf(t, other) = [i \in DOMAIN Retained(t, N) |-> Retained(t, N)[i][2]]
  BY DEF ValuesOf, EntriesOf, N
<1>5. ValuesOf(s, other) = [i \in DOMAIN Retained(s, N) |-> Retained(s, N)[i][2]]
  BY DEF ValuesOf, EntriesOf, N
<1>6. CASE other = name
  <2> DEFINE e == Retained(s, {})
  <2>1. e \in Seq(FormEntries) /\ ToSet(e) = {}
    <3> DEFINE Z == {}
    <3>1. \A z : z \notin Z
      OBVIOUS
    <3> HIDE DEF Z
    <3>2. Retained(s, Z) \in Seq(FormEntries) /\ ToSet(Retained(s, Z)) = ToSet(s) \cap Z
      BY RetainedMembers
    <3>3. ToSet(Retained(s, Z)) = {}
      BY <3>1, <3>2
    <3> QED BY <3>2, <3>3 DEF Z
  <2>2. Retained(t, N) = e
    BY <1>1, <1>3, <1>6
  <2> HIDE DEF e, t
  <2>3. DOMAIN e = {}
    BY <2>1 DEF ToSet
  <2>4. [i \in DOMAIN e |-> e[i][2]] = <<>>
    BY <2>3
  <2> QED BY <1>2, <1>4, <1>6, <2>2, <2>4 DEF t, M
<1>7. CASE other # name
  <2> DEFINE u == Retained(t, N)
             v == Retained(s, N)
  <2>1. u = v
    BY <1>1, <1>3, <1>7
  <2>2. ValuesOf(t, other) = [i \in DOMAIN u |-> u[i][2]]
    BY <1>4
  <2>3. ValuesOf(s, other) = [i \in DOMAIN v |-> v[i][2]]
    BY <1>5
  <2> HIDE DEF u, v
  <2>4. ValuesOf(t, other) = ValuesOf(s, other)
    BY <2>1, <2>2, <2>3
  <2> QED BY <1>2, <1>7, <2>4 DEF t, M
<1> QED BY <1>6, <1>7

\* One object changed, and one name of it.
Changed(d, name, t, values) ==
    /\ stores' = [stores EXCEPT ![d] = t]
    /\ kept' = [kept EXCEPT ![d][name] = values]
    /\ \A other \in EntryNames :
          ValuesOf(t, other) = IF other = name THEN values ELSE ValuesOf(stores[d], other)

LEMMA EntriesInitInv == FormDataInit => EntriesInv
<1> SUFFICES ASSUME FormDataInit PROVE EntriesInv
  OBVIOUS
<1>1. stores = <<>> /\ kept = <<>>
  BY DEF FormDataInit
<1>2. DOMAIN <<>> = {}
  OBVIOUS
<1> QED BY <1>1, <1>2 DEF EntriesInv

LEMMA EntriesNextInv == EntriesInv /\ [FormDataNext]_formDataVars => EntriesInv'
<1> SUFFICES ASSUME EntriesInv, [FormDataNext]_formDataVars PROVE EntriesInv'
  OBVIOUS
<1>0. /\ stores \in Seq(Seq(FormEntries)) /\ kept \in Seq([EntryNames -> Seq(EntryValues)])
      /\ Len(kept) = Len(stores) /\ Len(stores) \in Nat
      /\ DOMAIN stores = 1 .. Len(stores) /\ DOMAIN kept = 1 .. Len(stores)
      /\ \A d \in DOMAIN stores : stores[d] \in Seq(FormEntries) /\ kept[d] \in [EntryNames -> Seq(EntryValues)]
      /\ \A d \in DOMAIN stores, name \in EntryNames : ValuesOf(stores[d], name) = kept[d][name]
  BY DEF EntriesInv
<1>1. CASE NewFormData
  <2> DEFINE none == [name \in EntryNames |-> <<>>]
             n == Len(stores)
  <2>1. stores' = Append(stores, <<>>) /\ kept' = Append(kept, none)
    BY <1>1 DEF NewFormData
  <2>2. <<>> \in Seq(FormEntries) /\ none \in [EntryNames -> Seq(EntryValues)]
    OBVIOUS
  <2>3. \A name \in EntryNames : ValuesOf(<<>>, name) = <<>> /\ none[name] = <<>>
    <3> TAKE name \in EntryNames
    <3> DEFINE e == EntriesOf(<<>>, name)
    <3>1. e \in Seq(FormEntries) /\ ToSet(e) \subseteq ToSet(<<>>)
      <4> DEFINE Z == {name} \X EntryValues
                 z == <<>>
      <4>1. z \in Seq(FormEntries)
        OBVIOUS
      <4> HIDE DEF Z, z
      <4>2. Retained(z, Z) \in Seq(FormEntries) /\ ToSet(Retained(z, Z)) = ToSet(z) \cap Z
        BY <4>1, RetainedMembers
      <4> QED BY <4>2 DEF Z, z, EntriesOf
    <3>2. DOMAIN <<>> = {}
      OBVIOUS
    <3>3. ToSet(e) = {}
      BY <3>1, <3>2 DEF ToSet
    <3> HIDE DEF e
    <3>4. DOMAIN e = {}
      BY <3>3 DEF ToSet
    <3>5. ValuesOf(<<>>, name) = [i \in DOMAIN e |-> e[i][2]]
      BY DEF ValuesOf, e
    <3> QED BY <3>4, <3>5
  <2> HIDE DEF none
  <2>4. /\ stores' \in Seq(Seq(FormEntries)) /\ Len(stores') = n + 1
        /\ stores'[n + 1] = <<>> /\ \A d \in 1 .. n : stores'[d] = stores[d]
    BY <1>0, <2>1, <2>2
  <2>5. /\ kept' \in Seq([EntryNames -> Seq(EntryValues)]) /\ Len(kept') = n + 1
        /\ kept'[n + 1] = none /\ \A d \in 1 .. n : kept'[d] = kept[d]
    BY <1>0, <2>1, <2>2
  <2>6. ASSUME NEW d \in DOMAIN stores', NEW name \in EntryNames
        PROVE  ValuesOf(stores'[d], name) = kept'[d][name]
    <3>1. d \in 1 .. n \/ d = n + 1
      BY <1>0, <2>4
    <3>2. CASE d \in 1 .. n
      BY <1>0, <2>4, <2>5, <3>2
    <3>3. CASE d = n + 1
      BY <2>3, <2>4, <2>5, <3>3
    <3> QED BY <3>1, <3>2, <3>3
  <2> QED BY <2>4, <2>5, <2>6 DEF EntriesInv
<1>2. ASSUME NEW d \in DOMAIN stores, NEW t \in Seq(FormEntries),
             NEW name \in EntryNames, NEW values \in Seq(EntryValues),
             Changed(d, name, t, values)
      PROVE  EntriesInv'
  <2>0. /\ stores' = [stores EXCEPT ![d] = t] /\ kept' = [kept EXCEPT ![d][name] = values]
        /\ \A other \in EntryNames :
              ValuesOf(t, other) = IF other = name THEN values ELSE ValuesOf(stores[d], other)
    BY <1>2 DEF Changed
  <2>1. /\ stores' \in Seq(Seq(FormEntries)) /\ DOMAIN stores' = DOMAIN stores
        /\ Len(stores') = Len(stores)
        /\ stores'[d] = t /\ \A c \in DOMAIN stores : c # d => stores'[c] = stores[c]
    BY <1>0, <2>0
  <2>2. /\ kept' \in Seq([EntryNames -> Seq(EntryValues)]) /\ Len(kept') = Len(stores)
        /\ \A other \in EntryNames :
              kept'[d][other] = IF other = name THEN values ELSE kept[d][other]
        /\ \A c \in DOMAIN stores : c # d => kept'[c] = kept[c]
    <3> DEFINE k == [kept[d] EXCEPT ![name] = values]
    <3>1. kept' = [kept EXCEPT ![d] = k]
      BY <2>0
    <3>2. k \in [EntryNames -> Seq(EntryValues)] /\ \A other \in EntryNames :
             k[other] = IF other = name THEN values ELSE kept[d][other]
      BY <1>0, <2>0
    <3> HIDE DEF k
    <3> QED BY <1>0, <3>1, <3>2
  <2>3. ASSUME NEW c \in DOMAIN stores, NEW other \in EntryNames
        PROVE  ValuesOf(stores'[c], other) = kept'[c][other]
    <3>1. CASE c = d
      BY <1>0, <2>0, <2>1, <2>2, <3>1
    <3>2. CASE c # d
      BY <1>0, <2>1, <2>2, <3>2
    <3> QED BY <3>1, <3>2
  <2> QED BY <1>0, <2>1, <2>2, <2>3 DEF EntriesInv
<1>3. ASSUME NEW d \in DOMAIN stores, NEW name \in EntryNames, NEW value \in EntryValues,
             AppendEntry(d, name, value)
      PROVE  EntriesInv'
  <2> DEFINE t == Append(stores[d], <<name, value>>)
             v == Append(kept[d][name], value)
  <2>1. stores' = [stores EXCEPT ![d] = t] /\ kept' = [kept EXCEPT ![d][name] = v]
    BY <1>3 DEF AppendEntry
  <2>2. stores[d] \in Seq(FormEntries) /\ kept[d][name] \in Seq(EntryValues)
    BY <1>0
  <2>3. t \in Seq(FormEntries) /\ v \in Seq(EntryValues)
    BY <2>2, ValuesAppended
  <2>4. \A other \in EntryNames :
           ValuesOf(t, other) = IF other = name THEN v ELSE ValuesOf(stores[d], other)
    <3>1. \A other \in EntryNames :
             ValuesOf(t, other) = IF other = name THEN Append(ValuesOf(stores[d], other), value)
                                  ELSE ValuesOf(stores[d], other)
      BY <2>2, ValuesAppended
    <3>2. ValuesOf(stores[d], name) = kept[d][name]
      BY <1>0
    <3> HIDE DEF t
    <3> QED BY <3>1, <3>2
  <2> HIDE DEF t, v
  <2>5. Changed(d, name, t, v)
    BY <2>1, <2>4 DEF Changed
  <2> QED BY <1>2, <2>3, <2>5
<1>4. ASSUME NEW d \in DOMAIN stores, NEW name \in EntryNames, DeleteEntries(d, name)
      PROVE  EntriesInv'
  <2> DEFINE t == Others(d, name)
             v == <<>>
  <2>1. stores' = [stores EXCEPT ![d] = t] /\ kept' = [kept EXCEPT ![d][name] = v]
    BY <1>4 DEF DeleteEntries
  <2>2. stores[d] \in Seq(FormEntries) /\ v \in Seq(EntryValues)
    BY <1>0
  <2>3. t \in Seq(FormEntries) /\ \A other \in EntryNames :
           ValuesOf(t, other) = IF other = name THEN v ELSE ValuesOf(stores[d], other)
    BY <2>2, OthersKept DEF Others
  <2> HIDE DEF t, v
  <2>4. Changed(d, name, t, v)
    BY <2>1, <2>3 DEF Changed
  <2> QED BY <1>2, <2>2, <2>3, <2>4
<1>5. ASSUME NEW d \in DOMAIN stores, NEW name \in EntryNames, NEW value \in EntryValues,
             SetEntry(d, name, value)
      PROVE  EntriesInv'
  <2> DEFINE u == Others(d, name)
             t == Append(u, <<name, value>>)
             v == <<value>>
  <2>1. stores' = [stores EXCEPT ![d] = t] /\ kept' = [kept EXCEPT ![d][name] = v]
    BY <1>5 DEF SetEntry
  <2>2. stores[d] \in Seq(FormEntries) /\ v \in Seq(EntryValues)
    BY <1>0
  <2>3. u \in Seq(FormEntries) /\ \A other \in EntryNames :
           ValuesOf(u, other) = IF other = name THEN <<>> ELSE ValuesOf(stores[d], other)
    BY <2>2, OthersKept DEF Others
  <2> HIDE DEF u
  <2>4. t \in Seq(FormEntries) /\ \A other \in EntryNames :
           ValuesOf(t, other) = IF other = name THEN Append(ValuesOf(u, other), value) ELSE ValuesOf(u, other)
    BY <2>3, ValuesAppended
  <2>5. Append(<<>>, value) = v
    OBVIOUS
  <2> HIDE DEF t, v
  <2>6. \A other \in EntryNames :
           ValuesOf(t, other) = IF other = name THEN v ELSE ValuesOf(stores[d], other)
    BY <2>3, <2>4, <2>5
  <2>7. Changed(d, name, t, v)
    BY <2>1, <2>6 DEF Changed
  <2> QED BY <1>2, <2>2, <2>4, <2>7
<1>6. CASE UNCHANGED formDataVars
  BY <1>6 DEF formDataVars, EntriesInv
<1> QED BY <1>1, <1>3, <1>4, <1>5, <1>6 DEF FormDataNext

LEMMA EntriesDoAgree == EntriesInv => EntriesAgree
<1> SUFFICES ASSUME EntriesInv, NEW d \in DOMAIN stores, NEW name \in EntryNames
             PROVE  /\ EntryGetAll(d, name) = kept[d][name]
                    /\ EntryHas(d, name) <=> kept[d][name] # <<>>
                    /\ EntryGet(d, name) = IF kept[d][name] = <<>> THEN "null" ELSE kept[d][name][1]
  BY DEF EntriesAgree
<1> DEFINE s == stores[d]
           k == kept[d][name]
           N == {name} \X EntryValues
           h == Retained(s, N)
<1>1. s \in Seq(FormEntries) /\ k \in Seq(EntryValues) /\ ValuesOf(s, name) = k
  BY DEF EntriesInv
<1>2. h = EntriesOf(s, name)
  BY DEF EntriesOf
<1>3. k = [i \in DOMAIN h |-> h[i][2]]
  BY <1>1, <1>2 DEF ValuesOf
<1>4. EntryHas(d, name) <=> ToSet(s) \cap N # {}
  <2>1. \A i \in DOMAIN s : s[i] \in FormEntries
    BY <1>1
  <2>2. \A i \in DOMAIN s : s[i][1] = name <=> s[i] \in N
    BY <2>1 DEF FormEntries
  <2> HIDE DEF N
  <2> QED BY <2>2 DEF EntryHas, ToSet
<1> HIDE DEF N, s, k
<1>5. h \in Seq(FormEntries) /\ ToSet(h) = ToSet(s) \cap N
  BY <1>1, RetainedMembers
<1> HIDE DEF h
<1>6. Len(h) \in Nat /\ DOMAIN h = 1 .. Len(h)
  BY <1>5
<1>7. EntryHas(d, name) <=> DOMAIN h # {}
  BY <1>4, <1>5 DEF ToSet
<1>8. DOMAIN k = DOMAIN h /\ (k = <<>> <=> DOMAIN k = {})
  BY <1>1, <1>3
<1>9. DOMAIN h # {} => 1 \in DOMAIN h /\ Head(h) = h[1] /\ k[1] = h[1][2]
  BY <1>3, <1>5, <1>6
<1>10. EntryGet(d, name) = IF EntryHas(d, name) THEN Head(h)[2] ELSE "null"
  BY <1>2 DEF EntryGet, EntryHas, s
<1> QED BY <1>1, <1>7, <1>8, <1>9, <1>10 DEF EntryGetAll, s, k

\* However many pages a thread has had and whatever they did: a page with a network
\* client is served by its own (register), the ways into the headers of a response
\* agree, and every FormData object is a map from names to what was appended under
\* them, in order (register_form_data).
THEOREM ObjectsDoAgree == ObjectsSpec => []ObjectsAgree
<1>1. FetchSpec => []ResponsesAgree
  BY FetchInitInv, FetchNextInv, ResponsesDoAgree, PTL DEF FetchSpec
<1>2. FormDataSpec => []EntriesAgree
  BY EntriesInitInv, EntriesNextInv, EntriesDoAgree, PTL DEF FormDataSpec
<1> QED BY <1>1, <1>2, PTL DEF ObjectsSpec, ObjectsAgree

-----------------------------------------------------------------------------
(* Forms.                                                                  *)

\* The form is the root, and every other node comes after its parent.
FormInv ==
    /\ nodes \in Seq(FormNodes) /\ Len(nodes) >= 1
    /\ nodes[1].parent = 0 /\ ~ nodes[1].disabled
    /\ \A i \in 2 .. Len(nodes) : nodes[i].parent \in 1 .. i - 1

LEMMA FormInitInv == FormInit => FormInv
<1> SUFFICES ASSUME FormInit PROVE FormInv
  OBVIOUS
<1>1. FormNode \in FormNodes /\ FormNode.parent = 0 /\ FormNode.disabled = FALSE
  <2>1. NoLimit \in Int
    BY DEF NoLimit
  <2> QED BY <2>1 DEF FormNode, FormNodes
<1> HIDE DEF FormNode
<1>2. <<FormNode>> \in Seq(FormNodes) /\ Len(<<FormNode>>) = 1 /\ <<FormNode>>[1] = FormNode /\ 2 .. 1 = {}
  BY <1>1
<1> QED BY <1>1, <1>2 DEF FormInit, FormInv

LEMMA FormNextInv == FormInv /\ [FormNext]_nodes => FormInv'
<1> SUFFICES ASSUME FormInv, [FormNext]_nodes PROVE FormInv'
  OBVIOUS
<1> DEFINE n == Len(nodes)
<1>0. /\ nodes \in Seq(FormNodes) /\ n \in Nat /\ n >= 1 /\ DOMAIN nodes = 1 .. n
      /\ nodes[1].parent = 0 /\ ~ nodes[1].disabled
      /\ \A i \in 2 .. n : nodes[i].parent \in 1 .. i - 1
      /\ \A i \in 1 .. n : nodes[i] \in FormNodes
  BY DEF FormInv
<1> HIDE DEF n
<1>1. ASSUME NEW i \in DOMAIN nodes, NEW c \in FormControls, AddControl(i, c) PROVE FormInv'
  <2> DEFINE e == [c EXCEPT !.parent = i]
  <2>1. c \in FormNodes /\ i \in Nat
    BY <1>0, FormAssumption
  <2>2. e \in FormNodes /\ e.parent = i
    BY <2>1 DEF FormNodes
  <2> HIDE DEF e
  <2>3. nodes' = Append(nodes, e)
    BY <1>1 DEF AddControl, e
  <2>4. /\ nodes' \in Seq(FormNodes) /\ Len(nodes') = n + 1 /\ nodes'[n + 1] = e
        /\ \A j \in 1 .. n : nodes'[j] = nodes[j]
    <3>1. /\ Append(nodes, e) \in Seq(FormNodes) /\ Len(Append(nodes, e)) = Len(nodes) + 1
          /\ Append(nodes, e)[Len(nodes) + 1] = e
          /\ \A j \in 1 .. Len(nodes) : Append(nodes, e)[j] = nodes[j]
      BY <1>0, <2>2, AppendProperties
    <3> QED BY <2>3, <3>1 DEF n
  <2>5. 1 \in 1 .. n /\ \A j \in 2 .. n + 1 : (j \in 1 .. n /\ j \in 2 .. n) \/ (j = n + 1 /\ i \in 1 .. j - 1)
    BY <1>0
  <2> QED BY <1>0, <2>2, <2>4, <2>5 DEF FormInv
<1>2. ASSUME \A j \in 1 .. n : nodes'[j] \in FormNodes /\ nodes'[j].parent = nodes[j].parent,
             ~ nodes'[1].disabled, nodes' = [j \in 1 .. n |-> nodes'[j]]
      PROVE  FormInv'
  <2>1. nodes' \in Seq(FormNodes) /\ Len(nodes') = n
    BY <1>0, <1>2
  <2>2. \A j \in 2 .. n : j \in 1 .. n
    BY <1>0
  <2> QED BY <1>0, <1>2, <2>1, <2>2 DEF FormInv
<1>3. ASSUME NEW i \in DOMAIN nodes, NEW v \in FormValues, FillIn(i, v) PROVE FormInv'
  <2> DEFINE e == [nodes[i] EXCEPT !.value = v]
  <2>1. nodes' = [nodes EXCEPT ![i] = e]
    BY <1>3 DEF FillIn
  <2>2. e \in FormNodes /\ e.parent = nodes[i].parent /\ e.disabled = nodes[i].disabled
    <3>1. nodes[i] \in FormNodes /\ v \in FormValues \cup {Empty}
      BY <1>0
    <3> QED BY <3>1 DEF FormNodes
  <2> HIDE DEF e
  <2>3. nodes' = [j \in 1 .. n |-> nodes'[j]] /\ \A j \in 1 .. n : nodes'[j] = IF j = i THEN e ELSE nodes[j]
    BY <1>0, <2>1
  <2>4. \A j \in 1 .. n : nodes'[j] \in FormNodes /\ nodes'[j].parent = nodes[j].parent
    BY <1>0, <2>2, <2>3
  <2>5. ~ nodes'[1].disabled
    BY <1>0, <2>2, <2>3
  <2> QED BY <1>2, <2>3, <2>4, <2>5
<1>4. ASSUME NEW i \in DOMAIN nodes, Switch(i) PROVE FormInv'
  <2> DEFINE e == [nodes[i] EXCEPT !.on = ~ @]
  <2>1. nodes' = [nodes EXCEPT ![i] = e]
    BY <1>4 DEF Switch
  <2>2. e \in FormNodes /\ e.parent = nodes[i].parent /\ e.disabled = nodes[i].disabled
    <3>1. nodes[i] \in FormNodes
      BY <1>0
    <3> QED BY <3>1 DEF FormNodes
  <2> HIDE DEF e
  <2>3. nodes' = [j \in 1 .. n |-> nodes'[j]] /\ \A j \in 1 .. n : nodes'[j] = IF j = i THEN e ELSE nodes[j]
    BY <1>0, <2>1
  <2>4. \A j \in 1 .. n : nodes'[j] \in FormNodes /\ nodes'[j].parent = nodes[j].parent
    BY <1>0, <2>2, <2>3
  <2>5. ~ nodes'[1].disabled
    BY <1>0, <2>2, <2>3
  <2> QED BY <1>2, <2>3, <2>4, <2>5
<1>5. ASSUME NEW i \in DOMAIN nodes, Disable(i) PROVE FormInv'
  <2> DEFINE e == [nodes[i] EXCEPT !.disabled = ~ @]
  <2>1. nodes' = [nodes EXCEPT ![i] = e] /\ i # 1
    BY <1>5 DEF Disable
  <2>2. e \in FormNodes /\ e.parent = nodes[i].parent
    BY <1>0 DEF FormNodes
  <2> HIDE DEF e
  <2>3. nodes' = [j \in 1 .. n |-> nodes'[j]] /\ \A j \in 1 .. n : nodes'[j] = IF j = i THEN e ELSE nodes[j]
    BY <1>0, <2>1
  <2>4. \A j \in 1 .. n : nodes'[j] \in FormNodes /\ nodes'[j].parent = nodes[j].parent
    BY <1>0, <2>2, <2>3
  <2>5. ~ nodes'[1].disabled
    BY <1>0, <2>1, <2>3
  <2> QED BY <1>2, <2>3, <2>4, <2>5
<1>6. CASE UNCHANGED nodes
  BY <1>6 DEF FormInv
<1> QED BY <1>1, <1>3, <1>4, <1>5, <1>6 DEF FormNext

\* The children of a node, in order.
LEMMA ChildrenFacts ==
    ASSUME FormInv, NEW i \in DOMAIN nodes
    PROVE  LET kids == InOrder(Children(i))
           IN  /\ kids \in Seq(DOMAIN nodes) /\ ToSet(kids) = Children(i) /\ IsInjective(kids)
               /\ \A k \in DOMAIN kids : kids[k] \in i + 1 .. Len(nodes) /\ nodes[kids[k]].parent = i
<1> DEFINE n == Len(nodes)
           C == Children(i)
           all == [c \in 1 .. n |-> c]
           kids == Retained(all, C)
<1>1. n \in Nat /\ DOMAIN nodes = 1 .. n
  BY DEF FormInv
<1>2. C = {c \in 1 .. n : nodes[c].parent = i}
  BY <1>1 DEF Children
<1>3. all \in Seq(1 .. n) /\ DOMAIN all = 1 .. n /\ \A c \in 1 .. n : all[c] = c
  BY <1>1
<1>4. InOrder(C) = kids
  BY <1>1 DEF InOrder
<1> HIDE DEF C, all
<1>5. ToSet(all) = 1 .. n /\ IsInjective(all)
  BY <1>3 DEF ToSet, IsInjective
<1>6. kids \in Seq(1 .. n) /\ ToSet(kids) = ToSet(all) \cap C /\ IsInjective(kids)
  BY <1>3, <1>5, RetainedMembers
<1>7. ToSet(kids) = C
  BY <1>2, <1>5, <1>6
<1> HIDE DEF kids
<1>8. \A k \in DOMAIN kids : kids[k] \in C
  BY <1>7 DEF ToSet
<1>9. \A c \in C : c \in i + 1 .. n /\ nodes[c].parent = i
  <2> TAKE c \in C
  <2>1. c \in 1 .. n /\ nodes[c].parent = i /\ i \in 1 .. n
    BY <1>1, <1>2
  <2>2. c # 1
    BY <2>1 DEF FormInv
  <2>3. c \in 2 .. n
    BY <1>1, <2>1, <2>2
  <2>4. i \in 1 .. c - 1
    BY <2>1, <2>3 DEF FormInv
  <2> QED BY <1>1, <2>1, <2>4
<1> QED BY <1>1, <1>4, <1>6, <1>7, <1>8, <1>9 DEF C

\* What collect_form_controls gives for each node.
AddedTo(h, i) ==
    LET kids == InOrder(Children(i))
    IN  [k \in DOMAIN kids |-> Adds(kids[k], h[kids[k]])]

CollectsControls(h) == \A i \in DOMAIN nodes : h[i] \in Seq(DOMAIN nodes)

IsCollect(h) == h = [i \in DOMAIN nodes |-> FlattenSeq(AddedTo(h, i))]

LEMMA CollectedSteps ==
    ASSUME FormInv
    PROVE  \E h : Collected = h[1] /\ IsCollect(h) /\ CollectsControls(h)
<1> DEFINE n == Len(nodes)
           S == Seq(1 .. n)
           Kids(i) == InOrder(Children(i))
           F == [i \in 1 .. n |-> [f \in [i + 1 .. n -> S] |->
                    FlattenSeq([k \in DOMAIN Kids(i) |-> Adds(Kids(i)[k], f[Kids(i)[k]])])]]
<1>1. n \in Nat /\ n >= 1 /\ DOMAIN nodes = 1 .. n
  BY DEF FormInv
<1>2. \A i \in 1 .. n : /\ Kids(i) \in Seq(1 .. n)
                        /\ \A k \in DOMAIN Kids(i) : Kids(i)[k] \in i + 1 .. n /\ Kids(i)[k] \in 1 .. n
  BY <1>1, ChildrenFacts
<1>3. \A c \in 1 .. n, t \in S : Adds(c, t) \in S
  <2> TAKE c \in 1 .. n, t \in S
  <2> DEFINE a == IF Successful(nodes[c]) THEN <<c>> ELSE <<>>
             b == IF nodes[c].tag = "form" THEN <<>> ELSE t
  <2>1. a \in S /\ b \in S /\ <<>> \in S
    <3>1. <<>> \in S /\ <<c>> \in S
      OBVIOUS
    <3> HIDE DEF S
    <3> QED BY <3>1
  <2>2. Adds(c, t) = IF Skipped(nodes[c]) THEN <<>> ELSE a \o b
    BY DEF Adds
  <2> HIDE DEF a, b
  <2>3. a \o b \in S
    BY <2>1, ConcatMembers
  <2> QED BY <2>1, <2>2, <2>3
<1> HIDE DEF n, Kids
<1>4. ASSUME NEW i \in 1 .. n, NEW f \in [i + 1 .. n -> S]
      PROVE  /\ F[i][f] \in S
             /\ F[i][f] = FlattenSeq([k \in DOMAIN Kids(i) |-> Adds(Kids(i)[k], f[Kids(i)[k]])])
  <2> DEFINE s == [k \in DOMAIN Kids(i) |-> Adds(Kids(i)[k], f[Kids(i)[k]])]
  <2>1. \A k \in DOMAIN Kids(i) : Adds(Kids(i)[k], f[Kids(i)[k]]) \in S
    BY <1>2, <1>3
  <2>2. Kids(i) \in Seq(1 .. n)
    BY <1>2
  <2>3. s \in Seq(S)
    BY <2>1, <2>2
  <2> HIDE DEF s
  <2>4. FlattenSeq(s) \in S
    BY <2>3, FlattenFacts
  <2>5. F[i][f] = FlattenSeq(s)
    BY DEF s
  <2> QED BY <2>4, <2>5 DEF s
<1>5. \E g : IsDescent(g, F, S, n)
  <2> HIDE DEF F
  <2>1. StepsDown(F, S, n)
    BY <1>4 DEF StepsDown
  <2> HIDE DEF S
  <2> QED BY <1>1, <2>1, DescentExists
<1>6. PICK g : /\ g \in [1 .. n -> S]
               /\ \A i \in 1 .. n : g[i] = F[i][[j \in i + 1 .. n |-> g[j]]]
  BY <1>5 DEF IsDescent
<1>7. IsCollect(g)
  <2>1. ASSUME NEW i \in 1 .. n PROVE g[i] = FlattenSeq(AddedTo(g, i))
    <3> DEFINE f == [j \in i + 1 .. n |-> g[j]]
    <3>1. f \in [i + 1 .. n -> S]
      BY <1>1, <1>6
    <3>2. \A k \in DOMAIN Kids(i) : f[Kids(i)[k]] = g[Kids(i)[k]]
      BY <1>2
    <3> HIDE DEF f
    <3>3. F[i][f] = FlattenSeq([k \in DOMAIN Kids(i) |-> Adds(Kids(i)[k], f[Kids(i)[k]])])
      BY <1>4, <3>1
    <3>4. [k \in DOMAIN Kids(i) |-> Adds(Kids(i)[k], f[Kids(i)[k]])]
            = [k \in DOMAIN Kids(i) |-> Adds(Kids(i)[k], g[Kids(i)[k]])]
      BY <3>2
    <3>5. g[i] = F[i][f]
      BY <1>6 DEF f
    <3> HIDE DEF F
    <3> QED BY <3>3, <3>4, <3>5 DEF AddedTo, Kids
  <2> HIDE DEF S
  <2>2. g = [i \in 1 .. n |-> g[i]]
    BY <1>6
  <2>3. g = [i \in 1 .. n |-> FlattenSeq(AddedTo(g, i))]
    BY <2>1, <2>2
  <2> QED BY <1>1, <2>3 DEF IsCollect
<1> DEFINE h == CHOOSE f2 : f2 = [i \in DOMAIN nodes |->
                                LET kids == InOrder(Children(i))
                                IN  FlattenSeq([k \in DOMAIN kids |-> Adds(kids[k], f2[kids[k]])])]
<1>8. IsCollect(h)
  <2>1. \E f2 : f2 = [i \in DOMAIN nodes |->
                        LET kids == InOrder(Children(i))
                        IN  FlattenSeq([k \in DOMAIN kids |-> Adds(kids[k], f2[kids[k]])])]
    BY <1>7 DEF IsCollect, AddedTo
  <2>2. h = [i \in DOMAIN nodes |->
                        LET kids == InOrder(Children(i))
                        IN  FlattenSeq([k \in DOMAIN kids |-> Adds(kids[k], h[kids[k]])])]
    BY <2>1
  <2> HIDE DEF h
  <2> QED BY <2>2 DEF IsCollect, AddedTo
<1>9. Collected = h[1]
  BY DEF Collected
<1> HIDE DEF h
<1> DEFINE T == {i \in 1 .. n : h[i] \in S}
<1>10. ASSUME NEW m \in 1 .. n, m + 1 .. n \subseteq T PROVE m \in T
  <2> DEFINE f == [j \in m + 1 .. n |-> h[j]]
  <2>1. f \in [m + 1 .. n -> S] /\ \A j \in DOMAIN Kids(m) : f[Kids(m)[j]] = h[Kids(m)[j]]
    BY <1>2, <1>10
  <2> HIDE DEF f
  <2>2. F[m][f] \in S /\ F[m][f] = FlattenSeq([j \in DOMAIN Kids(m) |-> Adds(Kids(m)[j], f[Kids(m)[j]])])
    BY <1>4, <2>1
  <2>3. h[m] = FlattenSeq([j \in DOMAIN Kids(m) |-> Adds(Kids(m)[j], h[Kids(m)[j]])])
    <3>1. h = [i \in DOMAIN nodes |-> FlattenSeq(AddedTo(h, i))]
      BY <1>8 DEF IsCollect
    <3>2. h[m] = FlattenSeq(AddedTo(h, m))
      BY <1>1, <3>1
    <3> QED BY <3>2 DEF AddedTo, Kids
  <2>4. [j \in DOMAIN Kids(m) |-> Adds(Kids(m)[j], f[Kids(m)[j]])]
          = [j \in DOMAIN Kids(m) |-> Adds(Kids(m)[j], h[Kids(m)[j]])]
    BY <2>1
  <2> HIDE DEF F, S
  <2> QED BY <2>2, <2>3, <2>4
<1>11. 1 .. n \subseteq T
  <2> HIDE DEF T
  <2> QED BY <1>1, <1>10, DownwardInduction
<1> QED BY <1>1, <1>8, <1>9, <1>11 DEF CollectsControls

\* The controls that a child brings.
Within(h, c) ==
    IF Skipped(nodes[c]) THEN {}
    ELSE (IF Successful(nodes[c]) THEN {c} ELSE {})
           \cup (IF nodes[c].tag = "form" THEN {} ELSE ToSet(h[c]))

\* Each child brings no control twice, and no two of them bring the same one.
KidsApart(h, i) ==
    /\ \A c \in Children(i) : c \notin ToSet(h[c]) /\ IsInjective(h[c])
    /\ \A c, d \in Children(i) : c # d => Within(h, c) \cap Within(h, d) = {}

\* What is collected for a node is what its children bring.
LEMMA CollectedOf ==
    ASSUME FormInv, NEW h, IsCollect(h), CollectsControls(h),
           NEW i \in DOMAIN nodes
    PROVE  /\ ToSet(h[i]) = UNION {Within(h, c) : c \in Children(i)}
           /\ KidsApart(h, i) => IsInjective(h[i])
<1> DEFINE A == DOMAIN nodes
           kids == InOrder(Children(i))
           s == AddedTo(h, i)
<1>1. /\ kids \in Seq(A) /\ ToSet(kids) = Children(i) /\ IsInjective(kids)
      /\ \A k \in DOMAIN kids : kids[k] \in Children(i) /\ kids[k] \in A
  <2>1. kids \in Seq(A) /\ ToSet(kids) = Children(i) /\ IsInjective(kids)
    BY ChildrenFacts
  <2> HIDE DEF kids
  <2>2. \A k \in DOMAIN kids : kids[k] \in A
    BY <2>1
  <2>3. \A k \in DOMAIN kids : kids[k] \in ToSet(kids)
    BY DEF ToSet
  <2> QED BY <2>1, <2>2, <2>3
<1>2. s = [k \in DOMAIN kids |-> Adds(kids[k], h[kids[k]])]
  BY DEF AddedTo
<1>3. h[i] = FlattenSeq(s)
  <2>1. h = [j \in DOMAIN nodes |-> FlattenSeq(AddedTo(h, j))]
    BY DEF IsCollect
  <2> HIDE DEF s
  <2> QED BY <2>1 DEF s
<1> HIDE DEF s, kids
<1> USE DEF CollectsControls
<1>4. ASSUME NEW c \in A
      PROVE  /\ Adds(c, h[c]) \in Seq(A) /\ ToSet(Adds(c, h[c])) = Within(h, c)
             /\ c \notin ToSet(h[c]) /\ IsInjective(h[c]) => IsInjective(Adds(c, h[c]))
  <2> DEFINE a == IF Successful(nodes[c]) THEN <<c>> ELSE <<>>
             b == IF nodes[c].tag = "form" THEN <<>> ELSE h[c]
             t == h[c]
  <2>1. Adds(c, t) = IF Skipped(nodes[c]) THEN <<>> ELSE a \o b
    BY DEF Adds
  <2>2. /\ <<>> \in Seq(A) /\ ToSet(<<>>) = {} /\ IsInjective(<<>>)
        /\ <<c>> \in Seq(A) /\ ToSet(<<c>>) = {c} /\ IsInjective(<<c>>)
    <3>1. DOMAIN <<>> = {} /\ <<>> \in Seq(A)
      OBVIOUS
    <3>2. DOMAIN <<c>> = {1} /\ <<c>> \in Seq(A) /\ <<c>>[1] = c
      OBVIOUS
    <3> QED BY <3>1, <3>2 DEF ToSet, IsInjective
  <2>3. a \in Seq(A) /\ ToSet(a) = (IF Successful(nodes[c]) THEN {c} ELSE {}) /\ IsInjective(a)
    <3> HIDE DEF A
    <3> QED BY <2>2
  <2>4. /\ b \in Seq(A) /\ ToSet(b) = (IF nodes[c].tag = "form" THEN {} ELSE ToSet(t))
        /\ IsInjective(t) => IsInjective(b)
    <3>1. t \in Seq(A)
      OBVIOUS
    <3> HIDE DEF A
    <3> QED BY <2>2, <3>1
  <2>5. Within(h, c) = IF Skipped(nodes[c]) THEN {} ELSE ToSet(a) \cup ToSet(b)
    BY <2>3, <2>4 DEF Within
  <2>6. c \notin ToSet(t) => ToSet(a) \cap ToSet(b) = {}
    <3> HIDE DEF t
    <3> QED BY <2>3, <2>4
  <2> HIDE DEF a, b, t, A
  <2>7. a \o b \in Seq(A) /\ ToSet(a \o b) = ToSet(a) \cup ToSet(b)
    BY <2>3, <2>4, ConcatMembers
  <2>8. c \notin ToSet(t) /\ IsInjective(t) => IsInjective(a \o b)
    BY <2>3, <2>4, <2>6, ConcatSet
  <2>9. /\ Adds(c, t) \in Seq(A) /\ ToSet(Adds(c, t)) = Within(h, c)
        /\ c \notin ToSet(t) /\ IsInjective(t) => IsInjective(Adds(c, t))
    BY <2>1, <2>2, <2>5, <2>7, <2>8
  <2> QED BY <2>9 DEF t
<1> HIDE DEF A
<1>5. /\ s \in Seq(Seq(A)) /\ DOMAIN s = DOMAIN kids /\ DOMAIN s = 1 .. Len(s)
      /\ \A k \in DOMAIN kids : s[k] = Adds(kids[k], h[kids[k]])
  <2>1. DOMAIN s = DOMAIN kids /\ \A k \in DOMAIN kids : s[k] = Adds(kids[k], h[kids[k]])
    BY <1>2
  <2>2. \A k \in DOMAIN kids : s[k] \in Seq(A)
    BY <1>1, <1>4, <2>1
  <2>3. Len(kids) \in Nat /\ DOMAIN kids = 1 .. Len(kids)
    BY <1>1
  <2>4. s = [k \in 1 .. Len(kids) |-> s[k]]
    BY <1>2, <2>1, <2>3
  <2>5. s \in Seq(Seq(A)) /\ Len(s) = Len(kids)
    BY <2>2, <2>3, <2>4
  <2> QED BY <2>1, <2>3, <2>5
<1>6. \A k \in DOMAIN s : ToSet(s[k]) = Within(h, kids[k])
  BY <1>1, <1>4, <1>5
<1>7. ToSet(FlattenSeq(s)) = JoinedSet(s, Len(s)) /\ (AllApart(s) => IsInjective(FlattenSeq(s)))
  BY <1>5, FlattenFacts
<1>8. JoinedSet(s, Len(s)) = UNION {Within(h, c) : c \in Children(i)}
  <2>1. \A c \in Children(i) : \E k \in DOMAIN s : kids[k] = c
    BY <1>1, <1>5 DEF ToSet
  <2>2. \A k \in 1 .. Len(s) : kids[k] \in Children(i) /\ ToSet(s[k]) = Within(h, kids[k])
    BY <1>1, <1>5, <1>6
  <2>3. \A k \in 1 .. Len(s) : ToSet(s[k]) \subseteq UNION {Within(h, c) : c \in Children(i)}
    BY <2>2
  <2>4. \A c \in Children(i) : Within(h, c) \subseteq UNION {ToSet(s[k]) : k \in 1 .. Len(s)}
    BY <1>5, <1>6, <2>1
  <2> QED BY <2>3, <2>4 DEF JoinedSet
<1>9. KidsApart(h, i) => AllApart(s)
  <2> SUFFICES ASSUME KidsApart(h, i) PROVE AllApart(s)
    OBVIOUS
  <2>1. \A k \in DOMAIN s : IsInjective(s[k])
    BY <1>1, <1>4, <1>5 DEF KidsApart
  <2>2. ASSUME NEW k \in DOMAIN s, NEW m \in DOMAIN s, k # m PROVE ToSet(s[k]) \cap ToSet(s[m]) = {}
    <3>1. kids[k] # kids[m]
      BY <1>1, <1>5, <2>2 DEF IsInjective
    <3>2. kids[k] \in Children(i) /\ kids[m] \in Children(i)
      BY <1>1, <1>5
    <3>3. Within(h, kids[k]) \cap Within(h, kids[m]) = {}
      BY <3>1, <3>2 DEF KidsApart
    <3> QED BY <1>6, <3>3
  <2> QED BY <2>1, <2>2 DEF AllApart
<1> QED BY <1>3, <1>7, <1>8, <1>9

\* A node is enabled when it and its parent are.
LEMMA EnabledFacts ==
    ASSUME FormInv, NEW i \in DOMAIN nodes
    PROVE  Enabled(i) <=> ~ nodes[i].disabled /\ (nodes[i].parent = 0 \/ Enabled(nodes[i].parent))
<1> DEFINE n == Len(nodes)
           Value(f, j) == ~ nodes[j].disabled /\ (nodes[j].parent = 0 \/ f[nodes[j].parent])
           F == [j \in 1 .. n |-> [f \in [1 .. j - 1 -> BOOLEAN] |-> Value(f, j)]]
           Is(g) == g = [j \in 1 .. n |-> Value(g, j)]
<1>1. /\ n \in Nat /\ n >= 1 /\ DOMAIN nodes = 1 .. n
      /\ \A j \in 1 .. n : nodes[j].disabled \in BOOLEAN /\ (nodes[j].parent = 0 \/ nodes[j].parent \in 1 .. j - 1)
  <2>1. n \in Nat /\ n >= 1 /\ DOMAIN nodes = 1 .. n /\ \A j \in 1 .. n : nodes[j] \in FormNodes
    BY DEF FormInv
  <2>2. \A j \in 1 .. n : j = 1 \/ j \in 2 .. n
    BY <2>1
  <2>3. \A j \in 1 .. n : nodes[j].disabled \in BOOLEAN
    BY <2>1 DEF FormNodes
  <2> QED BY <2>1, <2>2, <2>3 DEF FormInv
<1> HIDE DEF n
<1>2. \A j \in 1 .. n : \A f : Value(f, j) \in BOOLEAN
  OBVIOUS
<1>3. \E g : Is(g)
  <2>1. StepsUp(F, BOOLEAN, n)
    <3> SUFFICES ASSUME NEW j \in 1 .. n, NEW f \in [1 .. j - 1 -> BOOLEAN] PROVE F[j][f] \in BOOLEAN
      BY DEF StepsUp
    <3> HIDE DEF Value
    <3> QED BY <1>2
  <2>2. \E g : IsAscent(g, F, BOOLEAN, n)
    <3> HIDE DEF F
    <3> QED BY <1>1, <2>1, AscentExists
  <2>3. PICK g : g \in [1 .. n -> BOOLEAN] /\ \A j \in 1 .. n : g[j] = F[j][[k \in 1 .. j - 1 |-> g[k]]]
    <3> HIDE DEF F
    <3> QED BY <2>2 DEF IsAscent
  <2>4. ASSUME NEW j \in 1 .. n PROVE g[j] = Value(g, j)
    <3> DEFINE f == [k \in 1 .. j - 1 |-> g[k]]
    <3>1. f \in [1 .. j - 1 -> BOOLEAN] /\ g[j] = F[j][f]
      <4> HIDE DEF F
      <4> QED BY <1>1, <2>3
    <3>2. nodes[j].parent \in 1 .. j - 1 => f[nodes[j].parent] = g[nodes[j].parent]
      OBVIOUS
    <3> HIDE DEF f
    <3>3. Value(f, j) = Value(g, j)
      BY <1>1, <3>2
    <3> HIDE DEF Value
    <3>4. F[j][f] = Value(f, j)
      BY <3>1
    <3> QED BY <3>1, <3>3, <3>4
  <2> HIDE DEF Value
  <2>5. g = [j \in 1 .. n |-> Value(g, j)]
    BY <2>3, <2>4
  <2> QED BY <2>5
<1> DEFINE h == CHOOSE g : Is(g)
<1>4. Is(h)
  BY <1>3
<1>5. \A j \in DOMAIN nodes : Enabled(j) = h[j]
  BY <1>1 DEF Enabled
<1> HIDE DEF h
<1>6. h[i] = Value(h, i)
  <2> HIDE DEF Value
  <2> QED BY <1>1, <1>4
<1>7. nodes[i].parent # 0 => nodes[i].parent \in 1 .. n
  BY <1>1
<1> QED BY <1>1, <1>5, <1>6, <1>7

\* A node is in the form when its parent is the form, or is no form and in it.
LEMMA InFormFacts ==
    ASSUME FormInv, NEW i \in DOMAIN nodes
    PROVE  InForm(i) <=> /\ i # 1
                         /\ \/ nodes[i].parent = 1
                            \/ nodes[nodes[i].parent].tag # "form" /\ InForm(nodes[i].parent)
<1> DEFINE n == Len(nodes)
           Value(f, j) == \/ nodes[j].parent = 1
                          \/ /\ nodes[j].parent > 1 /\ nodes[nodes[j].parent].tag # "form"
                             /\ f[nodes[j].parent]
           F == [j \in 1 .. n |-> [f \in [1 .. j - 1 -> BOOLEAN] |-> Value(f, j)]]
           Is(g) == g = [j \in 1 .. n |-> Value(g, j)]
<1>1. /\ n \in Nat /\ n >= 1 /\ DOMAIN nodes = 1 .. n
      /\ \A j \in 1 .. n : (j = 1 /\ nodes[j].parent = 0) \/ (j # 1 /\ nodes[j].parent \in 1 .. j - 1)
  <2>1. n \in Nat /\ n >= 1 /\ DOMAIN nodes = 1 .. n
    BY DEF FormInv
  <2>2. \A j \in 1 .. n : j = 1 \/ (j # 1 /\ j \in 2 .. n)
    BY <2>1
  <2> QED BY <2>1, <2>2 DEF FormInv
<1> HIDE DEF n
<1>2. \A j \in 1 .. n : \A f : Value(f, j) \in BOOLEAN
  OBVIOUS
<1>3. \E g : Is(g)
  <2>1. StepsUp(F, BOOLEAN, n)
    <3> SUFFICES ASSUME NEW j \in 1 .. n, NEW f \in [1 .. j - 1 -> BOOLEAN] PROVE F[j][f] \in BOOLEAN
      BY DEF StepsUp
    <3> HIDE DEF Value
    <3> QED BY <1>2
  <2>2. \E g : IsAscent(g, F, BOOLEAN, n)
    <3> HIDE DEF F
    <3> QED BY <1>1, <2>1, AscentExists
  <2>3. PICK g : g \in [1 .. n -> BOOLEAN] /\ \A j \in 1 .. n : g[j] = F[j][[k \in 1 .. j - 1 |-> g[k]]]
    <3> HIDE DEF F
    <3> QED BY <2>2 DEF IsAscent
  <2>4. ASSUME NEW j \in 1 .. n PROVE g[j] = Value(g, j)
    <3> DEFINE f == [k \in 1 .. j - 1 |-> g[k]]
    <3>1. f \in [1 .. j - 1 -> BOOLEAN] /\ g[j] = F[j][f]
      <4> HIDE DEF F
      <4> QED BY <1>1, <2>3
    <3>2. nodes[j].parent \in 1 .. j - 1 => f[nodes[j].parent] = g[nodes[j].parent]
      OBVIOUS
    <3> HIDE DEF f
    <3>3. Value(f, j) = Value(g, j)
      BY <1>1, <3>2
    <3> HIDE DEF Value
    <3>4. F[j][f] = Value(f, j)
      BY <3>1
    <3> QED BY <3>1, <3>3, <3>4
  <2> HIDE DEF Value
  <2>5. g = [j \in 1 .. n |-> Value(g, j)]
    BY <2>3, <2>4
  <2> QED BY <2>5
<1> DEFINE h == CHOOSE g : Is(g)
<1>4. Is(h)
  BY <1>3
<1>5. \A j \in DOMAIN nodes : InForm(j) <=> j # 1 /\ h[j]
  BY <1>1 DEF InForm
<1> HIDE DEF h
<1>6. h[i] = Value(h, i)
  <2> HIDE DEF Value
  <2> QED BY <1>1, <1>4
<1>7. /\ i # 1 => nodes[i].parent \in 1 .. n
      /\ nodes[i].parent \in 1 .. n => (nodes[i].parent > 1 <=> nodes[i].parent # 1)
  BY <1>1
<1> QED BY <1>1, <1>5, <1>6, <1>7

\* What every case needs of the tree.
LEMMA TreeFacts ==
    ASSUME FormInv
    PROVE  /\ Len(nodes) \in Nat /\ 1 \in DOMAIN nodes /\ DOMAIN nodes = 1 .. Len(nodes)
           /\ nodes[1].parent = 0 /\ ~ nodes[1].disabled
           /\ \A i \in DOMAIN nodes : i # 1 => nodes[i].parent \in 1 .. i - 1 /\ nodes[i].parent \in DOMAIN nodes
           /\ \A i \in DOMAIN nodes : \A c \in Children(i) :
                 c # 1 /\ c \in DOMAIN nodes /\ c \in i + 1 .. Len(nodes) /\ nodes[c].parent = i
<1>1. Len(nodes) \in Nat /\ Len(nodes) >= 1 /\ DOMAIN nodes = 1 .. Len(nodes)
  BY DEF FormInv
<1>2. \A i \in DOMAIN nodes : i # 1 => nodes[i].parent \in 1 .. i - 1 /\ nodes[i].parent \in DOMAIN nodes
  <2> TAKE i \in DOMAIN nodes
  <2>1. i # 1 => i \in 2 .. Len(nodes) /\ 1 .. i - 1 \subseteq DOMAIN nodes
    BY <1>1
  <2> QED BY <2>1 DEF FormInv
<1>3. ASSUME NEW i \in DOMAIN nodes, NEW c \in Children(i)
      PROVE  c # 1 /\ c \in DOMAIN nodes /\ c \in i + 1 .. Len(nodes) /\ nodes[c].parent = i
  <2>1. c \in DOMAIN nodes /\ nodes[c].parent = i
    BY DEF Children
  <2>2. c # 1
    BY <1>1, <2>1 DEF FormInv
  <2>3. i \in 1 .. c - 1
    BY <1>2, <2>1, <2>2
  <2> QED BY <1>1, <2>1, <2>2, <2>3
<1> QED BY <1>1, <1>2, <1>3 DEF FormInv

\* anc[i] is i and everything above it.
Ancestors(anc) ==
    \A i \in DOMAIN nodes :
        /\ i \in anc[i] /\ anc[i] \subseteq 1 .. i
        /\ \A c \in anc[i] : c # 1 => nodes[c].parent \in anc[i]
        /\ \A c, d \in anc[i] : nodes[c].parent = nodes[d].parent => c = d

LEMMA AncestorsExist == FormInv => \E anc : Ancestors(anc)
<1> SUFFICES ASSUME FormInv PROVE \E anc : Ancestors(anc)
  OBVIOUS
<1> DEFINE n == Len(nodes)
           S == SUBSET Nat
           Value(f, j) == {j} \cup (IF j = 1 THEN {} ELSE f[nodes[j].parent])
           F == [j \in 1 .. n |-> [f \in [1 .. j - 1 -> S] |-> Value(f, j)]]
<1>1. /\ n \in Nat /\ 1 \in 1 .. n /\ DOMAIN nodes = 1 .. n
      /\ nodes[1].parent = 0
      /\ \A j \in 1 .. n : j # 1 => nodes[j].parent \in 1 .. j - 1 /\ nodes[j].parent \in 1 .. n
  BY TreeFacts
<1> HIDE DEF n
<1>2. StepsUp(F, S, n)
  <2> SUFFICES ASSUME NEW j \in 1 .. n, NEW f \in [1 .. j - 1 -> S] PROVE F[j][f] \in S
    BY DEF StepsUp
  <2>1. Value(f, j) \in S
    BY <1>1
  <2> HIDE DEF Value
  <2> QED BY <2>1
<1>3. \E g : IsAscent(g, F, S, n)
  <2> HIDE DEF F, S
  <2> QED BY <1>1, <1>2, AscentExists
<1>4. PICK g : g \in [1 .. n -> S] /\ \A j \in 1 .. n : g[j] = F[j][[k \in 1 .. j - 1 |-> g[k]]]
  <2> HIDE DEF F, S
  <2> QED BY <1>3 DEF IsAscent
<1>5. ASSUME NEW j \in 1 .. n PROVE g[j] = Value(g, j)
  <2> DEFINE f == [k \in 1 .. j - 1 |-> g[k]]
  <2>1. f \in [1 .. j - 1 -> S] /\ g[j] = F[j][f]
    <3>1. 1 .. j - 1 \subseteq 1 .. n
      BY <1>1
    <3> HIDE DEF F, S
    <3> QED BY <1>4, <3>1
  <2>2. Value(f, j) = Value(g, j)
    BY <1>1
  <2> HIDE DEF Value, f
  <2>3. F[j][f] = Value(f, j)
    BY <2>1
  <2> QED BY <2>1, <2>2, <2>3
<1> DEFINE T == {i \in 1 .. n : /\ i \in g[i] /\ g[i] \subseteq 1 .. i
                                /\ \A c \in g[i] : c # 1 => nodes[c].parent \in g[i]
                                /\ \A c, d \in g[i] : nodes[c].parent = nodes[d].parent => c = d}
<1> HIDE DEF F
<1>6. ASSUME NEW i \in 1 .. n, 1 .. i - 1 \subseteq T PROVE i \in T
  <2>1. CASE i = 1
    <3>1. g[i] = {1} /\ 1 .. 1 = {1}
      BY <1>5, <2>1
    <3> QED BY <2>1, <3>1
  <2>2. CASE i # 1
    <3> DEFINE p == nodes[i].parent
               a == g[p]
    <3>1. p \in 1 .. i - 1 /\ p \in 1 .. n /\ p \in T /\ i \in Nat
      BY <1>1, <1>6, <2>2
    <3>2. g[i] = {i} \cup a
      BY <1>5, <2>2
    <3>3. /\ p \in a /\ a \subseteq 1 .. p
          /\ \A c \in a : c # 1 => nodes[c].parent \in a
          /\ \A c, d \in a : nodes[c].parent = nodes[d].parent => c = d
      BY <3>1
    <3> HIDE DEF a
    <3>4. g[i] \subseteq 1 .. i
      <4>1. 1 .. p \subseteq 1 .. i /\ i \in 1 .. i
        <5> HIDE DEF p
        <5> QED BY <3>1
      <4> HIDE DEF p
      <4> QED BY <3>2, <3>3, <4>1
    <3>5. \A d \in a : nodes[d].parent # p
      <4> TAKE d \in a
      <4>1. d \in 1 .. n /\ d \in 1 .. p
        BY <1>1, <3>1, <3>3
      <4> HIDE DEF p
      <4>2. CASE d = 1
        BY <1>1, <3>1, <4>2
      <4>3. CASE d # 1
        <5>1. nodes[d].parent \in 1 .. d - 1
          BY <1>1, <4>1, <4>3
        <5> QED BY <3>1, <4>1, <5>1
      <4> QED BY <4>2, <4>3
    <3> QED BY <3>2, <3>3, <3>4, <3>5
  <2> QED BY <2>1, <2>2
<1>7. 1 .. n \subseteq T
  <2> HIDE DEF T
  <2> QED BY <1>1, <1>6, UpwardInduction
<1> QED BY <1>1, <1>7 DEF Ancestors

\* The controls that are submitted are those of the form that are on.
LEMMA CollectedRight ==
    ASSUME FormInv, NEW h, IsCollect(h), CollectsControls(h)
    PROVE  ToSet(h[1]) = {i \in DOMAIN nodes : Successful(nodes[i]) /\ Enabled(i) /\ InForm(i)}
<1> DEFINE n == Len(nodes)
           Own(i) == Enabled(i) /\ (i = 1 \/ (InForm(i) /\ nodes[i].tag # "form"))
           Sub(i) == Enabled(i) /\ InForm(i)
           K(i) == UNION {Within(h, c) : c \in Children(i)}
           D == {i \in 1 .. n : Own(i) => \A x \in ToSet(h[i]) : x \in 1 .. n /\ Successful(nodes[x]) /\ Sub(x)}
           U == {i \in 1 .. n : i # 1 /\ Sub(i) => Within(h, i) \subseteq ToSet(h[1])}
<1>1. /\ n \in Nat /\ 1 \in 1 .. n /\ DOMAIN nodes = 1 .. n
      /\ nodes[1].parent = 0 /\ ~ nodes[1].disabled
      /\ \A j \in 1 .. n : j # 1 => nodes[j].parent \in 1 .. j - 1 /\ nodes[j].parent \in 1 .. n
      /\ \A i \in 1 .. n : \A c \in Children(i) : c # 1 /\ c \in 1 .. n /\ c \in i + 1 .. n /\ nodes[c].parent = i
  BY TreeFacts
<1>2. ASSUME NEW i \in 1 .. n PROVE ToSet(h[i]) = K(i)
  <2>1. i \in DOMAIN nodes
    BY <1>1
  <2>2. ToSet(h[i]) = UNION {Within(h, c) : c \in Children(i)}
    BY <2>1, CollectedOf
  <2> QED BY <2>2
<1> HIDE DEF n
<1>3. \A i \in 1 .. n : Enabled(i) <=> ~ nodes[i].disabled /\ (nodes[i].parent = 0 \/ Enabled(nodes[i].parent))
  BY <1>1, EnabledFacts
<1>4. \A i \in 1 .. n : InForm(i) <=> /\ i # 1
                                      /\ \/ nodes[i].parent = 1
                                         \/ nodes[nodes[i].parent].tag # "form" /\ InForm(nodes[i].parent)
  BY <1>1, InFormFacts
<1>5. Enabled(1)
  BY <1>1, <1>3
<1>6. ASSUME NEW i \in 1 .. n, i + 1 .. n \subseteq D PROVE i \in D
  <2> SUFFICES ASSUME Own(i), NEW x \in ToSet(h[i]) PROVE x \in 1 .. n /\ Successful(nodes[x]) /\ Sub(x)
    OBVIOUS
  <2>1. PICK c \in Children(i) : x \in Within(h, c)
    BY <1>2
  <2>2. c # 1 /\ c \in 1 .. n /\ c \in i + 1 .. n /\ nodes[c].parent = i
    BY <1>1
  <2>3. ~ nodes[c].disabled
    BY <2>1 DEF Within, Skipped
  <2>4. Sub(c)
    BY <1>3, <1>4, <2>2, <2>3
  <2>5. c \in D
    BY <1>6, <2>2
  <2>6. (x = c /\ Successful(nodes[c])) \/ (nodes[c].tag # "form" /\ x \in ToSet(h[c]))
    BY <2>1 DEF Within
  <2>7. CASE x = c /\ Successful(nodes[c])
    BY <2>2, <2>4, <2>7
  <2>8. CASE nodes[c].tag # "form" /\ x \in ToSet(h[c])
    BY <2>4, <2>5, <2>8
  <2> QED BY <2>6, <2>7, <2>8
<1>7. 1 .. n \subseteq D
  <2> HIDE DEF D
  <2> QED BY <1>1, <1>6, DownwardInduction
<1>8. ASSUME NEW i \in 1 .. n, 1 .. i - 1 \subseteq U PROVE i \in U
  <2> SUFFICES ASSUME i # 1, Sub(i) PROVE Within(h, i) \subseteq ToSet(h[1])
    OBVIOUS
  <2> DEFINE p == nodes[i].parent
  <2>1. p \in 1 .. n /\ p \in 1 .. i - 1 /\ p # 0
    BY <1>1
  <2>2. i \in Children(p)
    BY <1>1 DEF Children
  <2>3. Within(h, i) \subseteq ToSet(h[p])
    BY <1>2, <2>1, <2>2
  <2>4. CASE p = 1
    BY <2>3, <2>4
  <2>5. CASE p # 1
    <3>1. nodes[p].tag # "form" /\ InForm(p) /\ Enabled(p)
      BY <1>3, <1>4, <2>1, <2>5
    <3>2. Within(h, p) \subseteq ToSet(h[1])
      BY <1>8, <2>1, <2>5, <3>1
    <3>3. ~ nodes[p].disabled
      BY <1>3, <2>1, <3>1
    <3>4. ToSet(h[p]) \subseteq Within(h, p)
      BY <3>1, <3>3 DEF Within, Skipped
    <3> QED BY <2>3, <3>2, <3>4
  <2> QED BY <2>4, <2>5
<1>9. 1 .. n \subseteq U
  <2> HIDE DEF U
  <2> QED BY <1>1, <1>8, UpwardInduction
<1>10. ASSUME NEW x \in ToSet(h[1]) PROVE x \in 1 .. n /\ Successful(nodes[x]) /\ Sub(x)
  BY <1>1, <1>5, <1>7
<1>11. ASSUME NEW x \in 1 .. n, Successful(nodes[x]), Sub(x) PROVE x \in ToSet(h[1])
  <2>1. x # 1 /\ ~ nodes[x].disabled
    BY <1>3, <1>4, <1>11
  <2>2. x \in Within(h, x)
    BY <1>11, <2>1 DEF Within, Skipped
  <2> QED BY <1>9, <1>11, <2>1, <2>2
<1> QED BY <1>1, <1>10, <1>11

\* No control is submitted twice.
LEMMA CollectedOnce ==
    ASSUME FormInv, NEW h, IsCollect(h), CollectsControls(h)
    PROVE  IsInjective(h[1])
<1> DEFINE n == Len(nodes)
<1>1. /\ n \in Nat /\ 1 \in 1 .. n /\ DOMAIN nodes = 1 .. n
      /\ \A i \in 1 .. n : \A c \in Children(i) : c # 1 /\ c \in 1 .. n /\ c \in i + 1 .. n /\ nodes[c].parent = i
  BY TreeFacts
<1>2. PICK anc : Ancestors(anc)
  BY AncestorsExist
<1> DEFINE D == {i \in 1 .. n : IsInjective(h[i]) /\ \A x \in ToSet(h[i]) : x \in i + 1 .. n /\ i \in anc[x]}
<1> HIDE DEF n
<1>3. ASSUME NEW i \in 1 .. n, i + 1 .. n \subseteq D PROVE i \in D
  <2>1. ASSUME NEW c \in Children(i), NEW x \in Within(h, c) PROVE x \in c .. n /\ c \in anc[x]
    <3>1. c \in 1 .. n /\ c \in D
      BY <1>1, <1>3
    <3>2. x = c \/ x \in ToSet(h[c])
      BY DEF Within
    <3>3. CASE x = c
      BY <1>1, <1>2, <3>1, <3>3 DEF Ancestors
    <3>4. CASE x \in ToSet(h[c])
      BY <3>1, <3>4
    <3> QED BY <3>2, <3>3, <3>4
  <2>2. ASSUME NEW x \in ToSet(h[i]) PROVE x \in i + 1 .. n /\ i \in anc[x]
    <3>1. ToSet(h[i]) = UNION {Within(h, c) : c \in Children(i)}
      BY <1>1, CollectedOf
    <3>2. PICK c \in Children(i) : x \in Within(h, c)
      BY <3>1
    <3>3. x \in c .. n /\ c \in anc[x] /\ c # 1 /\ c \in i + 1 .. n /\ nodes[c].parent = i
      BY <1>1, <2>1, <3>2
    <3>4. x \in i + 1 .. n /\ x \in 1 .. n
      BY <3>3
    <3> QED BY <1>1, <1>2, <3>3, <3>4 DEF Ancestors
  <2>3. KidsApart(h, i)
    <3>1. ASSUME NEW c \in Children(i) PROVE c \notin ToSet(h[c]) /\ IsInjective(h[c])
      <4>1. c \in D /\ c \in Nat
        BY <1>1, <1>3
      <4> QED BY <4>1
    <3>2. ASSUME NEW c \in Children(i), NEW d \in Children(i), NEW x \in Within(h, c) \cap Within(h, d)
          PROVE  c = d
      <4>1. x \in c .. n /\ c \in anc[x] /\ d \in anc[x] /\ nodes[c].parent = i /\ nodes[d].parent = i
        BY <1>1, <2>1
      <4>2. x \in 1 .. n
        BY <1>1, <4>1
      <4> QED BY <1>1, <1>2, <4>1, <4>2 DEF Ancestors
    <3> HIDE DEF D
    <3> QED BY <3>1, <3>2 DEF KidsApart
  <2>4. IsInjective(h[i])
    BY <1>1, <2>3, CollectedOf
  <2> QED BY <2>2, <2>4
<1>4. 1 .. n \subseteq D
  <2> HIDE DEF D
  <2> QED BY <1>1, <1>3, DownwardInduction
<1> QED BY <1>1, <1>4

\* Validation looks at every control that is submitted.
LEMMA CollectedValidated ==
    ASSUME FormInv, NEW h, IsCollect(h), CollectsControls(h)
    PROVE  ToSet(h[1]) \subseteq Validated
<1> DEFINE n == Len(nodes)
           S == SUBSET (1 .. n)
           Value(f, i) == UNION {(IF nodes[c].tag \in {"input", "textarea", "select"} THEN {c} ELSE {})
                                   \cup (IF nodes[c].tag = "form" THEN {} ELSE f[c]) : c \in Children(i)}
           F == [i \in 1 .. n |-> [f \in [i + 1 .. n -> S] |-> Value(f, i)]]
           Is(g) == g = [i \in 1 .. n |-> Value(g, i)]
<1>1. /\ n \in Nat /\ 1 \in 1 .. n /\ DOMAIN nodes = 1 .. n
      /\ \A i \in 1 .. n : \A c \in Children(i) : c # 1 /\ c \in 1 .. n /\ c \in i + 1 .. n /\ nodes[c].parent = i
  BY TreeFacts
<1> HIDE DEF n
<1>2. \E g : Is(g)
  <2>1. StepsDown(F, S, n)
    <3> SUFFICES ASSUME NEW i \in 1 .. n, NEW f \in [i + 1 .. n -> S] PROVE F[i][f] \in S
      BY DEF StepsDown
    <3>1. Value(f, i) \in S
      <4>1. \A c \in Children(i) : c \in 1 .. n /\ f[c] \subseteq 1 .. n
        BY <1>1
      <4> QED BY <4>1
    <3> HIDE DEF Value, S
    <3> QED BY <3>1
  <2>2. \E g : IsDescent(g, F, S, n)
    <3> HIDE DEF F, S
    <3> QED BY <1>1, <2>1, DescentExists
  <2>3. PICK g : g \in [1 .. n -> S] /\ \A i \in 1 .. n : g[i] = F[i][[j \in i + 1 .. n |-> g[j]]]
    <3> HIDE DEF F, S
    <3> QED BY <2>2 DEF IsDescent
  <2>4. ASSUME NEW i \in 1 .. n PROVE g[i] = Value(g, i)
    <3> DEFINE f == [j \in i + 1 .. n |-> g[j]]
    <3>1. f \in [i + 1 .. n -> S] /\ g[i] = F[i][f]
      <4>1. i + 1 .. n \subseteq 1 .. n
        BY <1>1
      <4> HIDE DEF F, S
      <4> QED BY <2>3, <4>1
    <3>2. \A c \in Children(i) : f[c] = g[c]
      BY <1>1
    <3> HIDE DEF f
    <3>3. Value(f, i) = Value(g, i)
      BY <3>2
    <3> HIDE DEF Value
    <3>4. F[i][f] = Value(f, i)
      BY <3>1
    <3> QED BY <3>1, <3>3, <3>4
  <2> HIDE DEF Value, S
  <2>5. g = [i \in 1 .. n |-> Value(g, i)]
    BY <2>3, <2>4
  <2> QED BY <2>5
<1> DEFINE v == CHOOSE g : Is(g)
<1>3. Is(v)
  BY <1>2
<1>4. Validated = v[1]
  BY <1>1 DEF Validated
<1> HIDE DEF v
<1>5. ASSUME NEW i \in 1 .. n PROVE v[i] = Value(v, i)
  <2> HIDE DEF Value
  <2> QED BY <1>3
<1> DEFINE D == {i \in 1 .. n : ToSet(h[i]) \subseteq v[i]}
<1>6. ASSUME NEW i \in 1 .. n, i + 1 .. n \subseteq D PROVE i \in D
  <2>1. ASSUME NEW x \in ToSet(h[i]) PROVE x \in v[i]
    <3>1. ToSet(h[i]) = UNION {Within(h, c) : c \in Children(i)}
      BY <1>1, CollectedOf
    <3>2. PICK c \in Children(i) : x \in Within(h, c)
      BY <3>1
    <3>3. c \in D
      BY <1>1, <1>6
    <3>4. (x = c /\ Successful(nodes[c])) \/ (nodes[c].tag # "form" /\ x \in v[c])
      BY <3>2, <3>3 DEF Within
    <3>5. Successful(nodes[c]) => nodes[c].tag \in {"input", "textarea", "select"}
      BY DEF Successful
    <3> QED BY <1>5, <3>4, <3>5
  <2> QED BY <2>1
<1>7. 1 .. n \subseteq D
  <2> HIDE DEF D
  <2> QED BY <1>1, <1>6, DownwardInduction
<1> QED BY <1>1, <1>4, <1>7

\* A form submits every control of its own that is on, none of them twice and
\* nothing else, and when it is valid each of them is (collect_form_controls,
\* validate_controls).
THEOREM SubmitsRight == FormSpec => []SubmittedIsRight
<1>1. ASSUME FormInv PROVE SubmittedIsRight
  <2>1. PICK h : Collected = h[1] /\ IsCollect(h) /\ CollectsControls(h)
    BY <1>1, CollectedSteps
  <2>2. ToSet(Collected) = {i \in DOMAIN nodes : Successful(nodes[i]) /\ Enabled(i) /\ InForm(i)}
    BY <1>1, <2>1, CollectedRight
  <2>3. IsInjective(Collected)
    BY <1>1, <2>1, CollectedOnce
  <2>4. ToSet(Collected) \subseteq Validated
    BY <1>1, <2>1, CollectedValidated
  <2> QED BY <2>2, <2>3, <2>4 DEF SubmittedIsRight, Valid
<1> QED BY <1>1, FormInitInv, FormNextInv, PTL DEF FormSpec

-----------------------------------------------------------------------------
(* Canvas: where lines cross a row.                                        *)

LEMMA ProductGrows ==
    ASSUME NEW x \in Int, NEW y \in Int, NEW b \in Int, b > 0
    PROVE  x < y <=> x * b < y * b
BY SMT

\* The corners of a box, and those across and down from its first one.
Corner(x, y) == Transformed(<<x, y>>)

RectOp(x, y, u, v) == PathOp("rect", <<x, y>>, <<u, v>>)

LEMMA RectLines ==
    ASSUME NEW x, NEW y, NEW u, NEW v
    PROVE  LET p == Corner(x, y)
               q == Corner(u, v)
               across == Corner(u, y)
               down == Corner(x, v)
           IN  Flattened(<<RectOp(x, y, u, v)>>)
                 = <<<<p, across>>, <<across, q>>, <<q, down>>, <<down, p>>>>
<1> DEFINE o == RectOp(x, y, u, v)
           ops == <<o>>
           first == [lines |-> <<>>, at |-> <<0, 0>>, start |-> <<0, 0>>]
           Is(f) == f = [k \in 0 .. Len(ops) |-> IF k = 0 THEN first ELSE Lengthened(f[k - 1], ops[k])]
           h == CHOOSE f : Is(f)
           g == [k \in 0 .. 1 |-> IF k = 0 THEN first ELSE Lengthened(first, o)]
           p == Corner(x, y)
           q == Corner(u, v)
           across == Corner(u, y)
           down == Corner(x, v)
           ps == <<p, across, q, down, p>>
<1>1. Len(ops) = 1 /\ ops[1] = o
  OBVIOUS
<1>2. Flattened(ops) = h[Len(ops)].lines
  BY DEF Flattened
<1>3. o.op = "rect" /\ o.at = <<x, y>> /\ o.to = <<u, v>>
  BY DEF RectOp, PathOp
<1>4. Lengthened(first, o).lines = <<>> \o [i \in 1 .. Len(ps) - 1 |-> <<ps[i], ps[i + 1]>>]
  <2> HIDE DEF o
  <2> QED BY <1>3 DEF Lengthened, Corner
<1> HIDE DEF o, ops, first
<1>5. Is(h)
  <2>1. Is(g)
    <3>1. ASSUME NEW k \in 0 .. 1
          PROVE  g[k] = IF k = 0 THEN first ELSE Lengthened(g[k - 1], ops[k])
      <4>1. CASE k = 0
        BY <4>1
      <4>2. CASE k = 1
        BY <4>2, <1>1
      <4> QED BY <4>1, <4>2
    <3> QED BY <3>1, <1>1
  <2> QED BY <2>1
<1>6. h[1] = Lengthened(h[0], o) /\ h[0] = first
  <2> HIDE DEF h
  <2> QED BY <1>1, <1>5
<1> HIDE DEF h, p, q, across, down
<1>7. <<>> \o [i \in 1 .. Len(ps) - 1 |-> <<ps[i], ps[i + 1]>>]
        = <<<<p, across>>, <<across, q>>, <<q, down>>, <<down, p>>>>
  OBVIOUS
<1>8. Flattened(ops) = <<<<p, across>>, <<across, q>>, <<q, down>>, <<down, p>>>>
  BY <1>1, <1>2, <1>4, <1>6, <1>7
<1> QED BY <1>8 DEF ops, o, p, q, across, down

-----------------------------------------------------------------------------
\* An upright line crosses a row at its own place, a level one nowhere.
Upright(x, a, b) == <<<<x, a>>, <<x, b>>>>
Level(a, b, y) == <<<<a, y>>, <<b, y>>>>

\* The middle of a row lies between two heights.
HasMiddle(a, b, row) ==
    2 * Lesser(a, b) <= (2 * row + 1) * Grain /\ (2 * row + 1) * Grain < 2 * Greater(a, b)

LEMMA LevelCutsNothing ==
    ASSUME NEW a \in Int, NEW b \in Int, NEW y \in Int, NEW row \in Int, Grain \in Int
    PROVE  ~ Cuts(Level(a, b, y), row)
<1>1. Lesser(y, y) = y /\ Greater(y, y) = y
  BY DEF Lesser, Greater
<1>2. (2 * row + 1) * Grain \in Int
  OBVIOUS
<1> QED BY <1>1, <1>2 DEF Cuts, Level

LEMMA UprightCuts ==
    ASSUME NEW x \in Int, NEW a \in Int, NEW b \in Int, NEW row \in Int
    PROVE  /\ Cuts(Upright(x, a, b), row) <=> HasMiddle(a, b, row)
           /\ Cuts(Upright(x, b, a), row) <=> HasMiddle(a, b, row)
<1>1. Lesser(a, b) = Lesser(b, a) /\ Greater(a, b) = Greater(b, a)
  BY DEF Lesser, Greater
<1> QED BY <1>1 DEF Upright, Cuts, HasMiddle

CrossesAt(s, row, x) == \E m \in Int : m > 0 /\ CrossingOf(s, row) = <<x * m, m>>

LEMMA UprightCrossing ==
    ASSUME NEW x \in Int, NEW a \in Int, NEW b \in Int, NEW row \in Int, Grain \in Int,
           Cuts(Upright(x, a, b), row)
    PROVE  CrossesAt(Upright(x, a, b), row, x)
<1> DEFINE s == Upright(x, a, b)
           rise == b - a
           sign == IF rise > 0 THEN 1 ELSE -1
           m == sign * 2 * rise
           y == (2 * row + 1) * Grain
<1>1. s[1][1] = x /\ s[1][2] = a /\ s[2][1] = x /\ s[2][2] = b
  BY DEF Upright
<1>2. y \in Int
  OBVIOUS
<1>3. 2 * Lesser(a, b) <= y /\ y < 2 * Greater(a, b)
  BY UprightCuts DEF HasMiddle
<1>4. CrossingOf(s, row) = <<sign * (2 * x * rise + (y - 2 * a) * (x - x)), sign * 2 * rise>>
  BY <1>1 DEF CrossingOf
<1> HIDE DEF y
<1>5. m \in Int /\ m > 0 /\ CrossingOf(s, row) = <<x * m, m>>
  <2>1. a # b
    BY <1>2, <1>3 DEF Lesser, Greater
  <2>2. m \in Int /\ m > 0
    BY <2>1
  <2>3. (y - 2 * a) * (x - x) = 0
    BY <1>2
  <2>4. sign * (2 * x * rise + 0) = x * m
    <3>1. CASE rise > 0
      BY <3>1
    <3>2. CASE ~ (rise > 0)
      BY <3>2
    <3> QED BY <3>1, <3>2
  <2> QED BY <1>4, <2>2, <2>3, <2>4
<1> QED BY <1>5 DEF CrossesAt

\* Of two crossings the one that is further left goes first.
LEMMA TwoFromLeft ==
    ASSUME NEW a, NEW b, ~ LeftOf(a, a), ~ LeftOf(b, b), ~ (LeftOf(a, b) /\ LeftOf(b, a))
    PROVE  FromLeft(<<a, b>>) = IF LeftOf(b, a) THEN <<b, a>> ELSE <<a, b>>
<1> DEFINE at == <<a, b>>
           Earlier(i) == {j \in DOMAIN at : LeftOf(at[j], at[i]) \/ (~ LeftOf(at[i], at[j]) /\ j < i)}
           place(k) == CHOOSE i \in DOMAIN at : Cardinality(Earlier(i)) = k - 1
           first == IF LeftOf(b, a) THEN 2 ELSE 1
           second == IF LeftOf(b, a) THEN 1 ELSE 2
<1>1. DOMAIN at = {1, 2} /\ at[1] = a /\ at[2] = b
  OBVIOUS
<1>2. FromLeft(at) = [k \in DOMAIN at |-> at[place(k)]]
  BY DEF FromLeft
<1> HIDE DEF at
<1>3. Earlier(first) = {} /\ Earlier(second) = {first}
  BY <1>1
<1> HIDE DEF Earlier
<1>4. Cardinality(Earlier(first)) = 0 /\ Cardinality(Earlier(second)) = 1
  BY <1>3, FS_EmptySet, FS_Singleton
<1>5. {first, second} = {1, 2} /\ first # second
  OBVIOUS
<1> HIDE DEF first, second
<1>6. place(1) = first /\ place(2) = second
  BY <1>1, <1>4, <1>5
<1> HIDE DEF place
<1>7. FromLeft(at)[1] = at[first] /\ FromLeft(at)[2] = at[second] /\ DOMAIN FromLeft(at) = {1, 2}
  BY <1>1, <1>2, <1>6
<1>8. FromLeft(at) = [k \in 1 .. 2 |-> IF k = 1 THEN at[first] ELSE at[second]]
  BY <1>1, <1>2, <1>6
<1>9. FromLeft(at) = <<at[first], at[second]>>
  BY <1>8
<1> QED BY <1>1, <1>9 DEF at, first, second

\* The crossings of two upright lines, which cross it both: what is between them.
LEMMA BetweenUprights ==
    ASSUME NEW x \in Int, NEW z \in Int, NEW m \in Int, NEW n \in Int, m > 0, n > 0
    PROVE  FromLeft(<<<<x * m, m>>, <<z * n, n>>>>)
             = IF z < x THEN <<<<z * n, n>>, <<x * m, m>>>> ELSE <<<<x * m, m>>, <<z * n, n>>>>
<1> DEFINE a == <<x * m, m>>
           b == <<z * n, n>>
           k == m * n
<1>1. k \in Int /\ k > 0
  BY SMT
<1>2. (x * m) * n = x * k /\ (z * n) * m = z * k
  BY SMT
<1>3. LeftOf(a, b) <=> x * k < z * k
  BY <1>2 DEF LeftOf
<1>4. LeftOf(b, a) <=> z * k < x * k
  BY <1>2 DEF LeftOf
<1>5. ~ LeftOf(a, a) /\ ~ LeftOf(b, b)
  BY DEF LeftOf
<1> HIDE DEF k
<1>6. (LeftOf(a, b) <=> x < z) /\ (LeftOf(b, a) <=> z < x)
  BY <1>1, <1>3, <1>4, ProductGrows
<1> HIDE DEF a, b
<1>7. FromLeft(<<a, b>>) = IF LeftOf(b, a) THEN <<b, a>> ELSE <<a, b>>
  BY <1>5, <1>6, TwoFromLeft
<1> QED BY <1>6, <1>7 DEF a, b

LEMMA AppendFacts ==
    ASSUME NEW T, NEW s \in Seq(T), NEW z \in T
    PROVE  /\ Append(s, z) \in Seq(T) /\ Len(Append(s, z)) = Len(s) + 1
           /\ \A i \in 1 .. Len(s) : Append(s, z)[i] = s[i]
           /\ Append(s, z)[Len(s) + 1] = z
OBVIOUS

LEMMA PairOf ==
    ASSUME NEW T, NEW t \in Seq(T), Len(t) = 2
    PROVE  t = <<t[1], t[2]>>
OBVIOUS

LEMMA AppendToOne ==
    ASSUME NEW y, NEW z
    PROVE  Append(<<y>>, z) = <<y, z>>
<1> DEFINE T == {y, z}
           s == <<y>>
           t == Append(s, z)
<1>1. y \in T /\ z \in T
  OBVIOUS
<1> HIDE DEF T
<1>2. s \in Seq(T) /\ Len(s) = 1 /\ s[1] = y
  BY <1>1
<1> HIDE DEF s
<1>3. /\ t \in Seq(T) /\ Len(t) = Len(s) + 1
      /\ \A i \in 1 .. Len(s) : t[i] = s[i]
      /\ t[Len(s) + 1] = z
  BY <1>1, <1>2, AppendFacts, Zenon
<1> HIDE DEF t
<1>4. Len(t) = 2 /\ t[1] = y /\ t[2] = z
  BY <1>2, <1>3
<1>5. t = <<t[1], t[2]>>
  BY <1>3, <1>4, PairOf, Zenon
<1>6. t = <<y, z>>
  BY <1>4, <1>5, Zenon
<1> QED BY <1>6 DEF t, s

\* What is retained of four, when two of them go together and the others go.
LEMMA FourRetained ==
    ASSUME NEW a, NEW b, NEW c, NEW d, NEW S
    PROVE  /\ a \notin S /\ c \notin S /\ b \in S /\ d \in S => Retained(<<a, b, c, d>>, S) = <<b, d>>
           /\ b \notin S /\ d \notin S /\ a \in S /\ c \in S => Retained(<<a, b, c, d>>, S) = <<a, c>>
           /\ a \notin S /\ b \notin S /\ c \notin S /\ d \notin S => Retained(<<a, b, c, d>>, S) = <<>>
<1> DEFINE A == {a, b, c, d}
           s == <<a, b, c, d>>
<1>1. s \in Seq(A) /\ Len(s) = 4 /\ s[1] = a /\ s[2] = b /\ s[3] = c /\ s[4] = d
  OBVIOUS
<1> HIDE DEF s, A
<1>2. PICK f : Retains(f, s, S, A) /\ Retained(s, S) = f[Len(s)]
  BY <1>1, RetainedSteps
<1>3. f[0] = <<>>
  BY <1>2 DEF Retains
<1>4. f[1] = IF a \in S THEN Append(f[0], a) ELSE f[0]
  <2>1. 1 \in 1 .. Len(s) /\ 1 - 1 = 0
    BY <1>1
  <2>2. f[1] = IF s[1] \in S THEN Append(f[1 - 1], s[1]) ELSE f[1 - 1]
    BY <1>2, <2>1 DEF Retains
  <2> QED BY <1>1, <2>1, <2>2
<1>5. f[2] = IF b \in S THEN Append(f[1], b) ELSE f[1]
  BY <1>1, <1>2 DEF Retains
<1>6. f[3] = IF c \in S THEN Append(f[2], c) ELSE f[2]
  BY <1>1, <1>2 DEF Retains
<1>7. f[4] = IF d \in S THEN Append(f[3], d) ELSE f[3]
  BY <1>1, <1>2 DEF Retains
<1>8. \A y, z : Append(<<>>, y) = <<y>> /\ Append(<<y>>, z) = <<y, z>>
  <2> SUFFICES ASSUME NEW y, NEW z PROVE Append(<<>>, y) = <<y>> /\ Append(<<y>>, z) = <<y, z>>
    OBVIOUS
  <2>1. <<>> \in Seq({y, z}) /\ <<y>> \in Seq({y, z}) /\ Len(<<>>) = 0 /\ Len(<<y>>) = 1
    OBVIOUS
  <2>2. Append(<<>>, y) = <<y>>
    BY <2>1
  <2>3. Append(<<y>>, z) = <<y, z>>
    BY AppendToOne
  <2> QED BY <2>2, <2>3
<1>9. Retained(s, S) = f[4]
  BY <1>1, <1>2
<1> QED BY <1>3, <1>4, <1>5, <1>6, <1>7, <1>8, <1>9 DEF s

-----------------------------------------------------------------------------
(* A rectangle as a path.                                                  *)

Cutting(lines, row) == {s \in ToSet(lines) : Cuts(s, row)}

\* A cell has a part between two places.
Overlaps(x, z, i) == Lesser(x, z) < (i + 1) * Grain /\ i * Grain < Greater(x, z)

\* The pairs of crossings that hold a cell of their row.
RowLayers(xs, i) ==
    {k \in 1 .. Len(xs) \div 2 :
        /\ xs[2 * k - 1][1] < (i + 1) * Grain * xs[2 * k - 1][2]
        /\ i * Grain * xs[2 * k][2] < xs[2 * k][1]}

LEMMA LayersByRow ==
    ASSUME NEW lines, NEW c \in Cells
    PROVE  Layers(lines, c) = RowLayers(Crossings(lines, c[2]), c[1])
BY DEF Layers, RowLayers

LEMMA RowBetween ==
    ASSUME NEW x \in Int, NEW z \in Int, NEW m \in Int, NEW n \in Int, m > 0, n > 0, NEW i \in Int,
           Grain \in Int
    PROVE  RowLayers(FromLeft(<<<<x * m, m>>, <<z * n, n>>>>), i) = IF Overlaps(x, z, i) THEN {1} ELSE {}
<1> DEFINE First(a, k, b, l) == <<<<a * k, k>>, <<b * l, l>>>>
<1>1. ASSUME NEW a \in Int, NEW k \in Int, NEW b \in Int, NEW l \in Int, k > 0, l > 0
      PROVE  RowLayers(First(a, k, b, l), i)
               = IF a < (i + 1) * Grain /\ i * Grain < b THEN {1} ELSE {}
  <2> DEFINE xs == First(a, k, b, l)
             p == (i + 1) * Grain
             q == i * Grain
  <2>1. Len(xs) = 2 /\ xs[1] = <<a * k, k>> /\ xs[2] = <<b * l, l>>
    OBVIOUS
  <2>2. p \in Int /\ q \in Int
    OBVIOUS
  <2>3. RowLayers(xs, i) = {j \in 1 .. Len(xs) \div 2 : /\ xs[2 * j - 1][1] < p * xs[2 * j - 1][2]
                                                        /\ q * xs[2 * j][2] < xs[2 * j][1]}
    BY DEF RowLayers
  <2> HIDE DEF xs, p, q
  <2>4. 1 .. Len(xs) \div 2 = {1} /\ 2 * 1 - 1 = 1 /\ 2 * 1 = 2
    BY <2>1
  <2>5. xs[1][1] = a * k /\ xs[1][2] = k /\ xs[2][1] = b * l /\ xs[2][2] = l
    BY <2>1
  <2>6. RowLayers(xs, i) = IF a * k < p * k /\ q * l < b * l THEN {1} ELSE {}
    BY <2>3, <2>4, <2>5
  <2>7. (a < p <=> a * k < p * k) /\ (q < b <=> q * l < b * l)
    BY <1>1, <2>2, ProductGrows
  <2>8. RowLayers(xs, i) = IF a < p /\ q < b THEN {1} ELSE {}
    BY <2>6, <2>7
  <2> QED BY <2>8 DEF xs, p, q
<1>2. FromLeft(First(x, m, z, n)) = IF z < x THEN First(z, n, x, m) ELSE First(x, m, z, n)
  BY BetweenUprights
<1> HIDE DEF First
<1>3. CASE z < x
  <2>1. RowLayers(First(z, n, x, m), i) = IF z < (i + 1) * Grain /\ i * Grain < x THEN {1} ELSE {}
    BY <1>1
  <2>2. Overlaps(x, z, i) <=> z < (i + 1) * Grain /\ i * Grain < x
    <3>1. Lesser(x, z) = z /\ Greater(x, z) = x
      BY <1>3 DEF Lesser, Greater
    <3> QED BY <3>1 DEF Overlaps
  <2> QED BY <1>2, <1>3, <2>1, <2>2 DEF First
<1>4. CASE ~ (z < x)
  <2>1. RowLayers(First(x, m, z, n), i) = IF x < (i + 1) * Grain /\ i * Grain < z THEN {1} ELSE {}
    BY <1>1
  <2>2. Overlaps(x, z, i) <=> x < (i + 1) * Grain /\ i * Grain < z
    <3>1. Lesser(x, z) = x /\ Greater(x, z) = z
      BY <1>4 DEF Lesser, Greater
    <3> QED BY <3>1 DEF Overlaps
  <2> QED BY <1>2, <1>4, <2>1, <2>2 DEF First
<1> QED BY <1>3, <1>4

\* Two upright lines between the same heights, of all lines that cut a row.
CutByTwo(lines, row, x, z, a, b) ==
    Retained(lines, Cutting(lines, row))
      = IF HasMiddle(a, b, row) THEN <<Upright(x, a, b), Upright(z, b, a)>> ELSE <<>>

LEMMA LayersOfUprights ==
    ASSUME NEW x \in Int, NEW z \in Int, NEW a \in Int, NEW b \in Int, NEW row \in Int, NEW i \in Int,
           Grain \in Int, NEW lines, CutByTwo(lines, row, x, z, a, b)
    PROVE  RowLayers(Crossings(lines, row), i) = IF HasMiddle(a, b, row) /\ Overlaps(x, z, i) THEN {1} ELSE {}
<1> DEFINE cut == Retained(lines, Cutting(lines, row))
           at == [j \in DOMAIN cut |-> CrossingOf(cut[j], row)]
<1>0. cut = IF HasMiddle(a, b, row) THEN <<Upright(x, a, b), Upright(z, b, a)>> ELSE <<>>
  BY DEF CutByTwo
<1>1. Crossings(lines, row) = FromLeft(at)
  BY DEF Crossings, Cutting
<1>2. CASE HasMiddle(a, b, row)
  <2>1. cut = <<Upright(x, a, b), Upright(z, b, a)>>
    BY <1>0, <1>2
  <2>2. PICK m \in Int : m > 0 /\ CrossingOf(Upright(x, a, b), row) = <<x * m, m>>
    <3>1. Cuts(Upright(x, a, b), row)
      BY <1>2, UprightCuts, Zenon
    <3>2. CrossesAt(Upright(x, a, b), row, x)
      BY <3>1, UprightCrossing, Zenon
    <3> QED BY <3>2 DEF CrossesAt
  <2>3. PICK n \in Int : n > 0 /\ CrossingOf(Upright(z, b, a), row) = <<z * n, n>>
    <3>1. Cuts(Upright(z, b, a), row)
      BY <1>2, UprightCuts, Zenon
    <3>2. CrossesAt(Upright(z, b, a), row, z)
      BY <3>1, UprightCrossing, Zenon
    <3> QED BY <3>2 DEF CrossesAt
  <2> DEFINE u == CrossingOf(Upright(x, a, b), row)
             v == CrossingOf(Upright(z, b, a), row)
  <2>4. at = <<u, v>>
    <3> HIDE DEF cut
    <3>1. DOMAIN cut = 1 .. 2 /\ cut[1] = Upright(x, a, b) /\ cut[2] = Upright(z, b, a)
      BY <2>1
    <3>2. at = [j \in 1 .. 2 |-> IF j = 1 THEN u ELSE v]
      BY <3>1
    <3> HIDE DEF at, u, v
    <3> QED BY <3>2
  <2>5. RowLayers(FromLeft(<<u, v>>), i) = IF Overlaps(x, z, i) THEN {1} ELSE {}
    <3> HIDE DEF u, v
    <3>1. u = <<x * m, m>> /\ v = <<z * n, n>>
      BY <2>2, <2>3 DEF u, v
    <3> QED BY <2>2, <2>3, <3>1, RowBetween
  <2> QED BY <1>1, <1>2, <2>4, <2>5
<1>3. CASE ~ HasMiddle(a, b, row)
  <2>1. cut = <<>>
    BY <1>0, <1>3
  <2>2. DOMAIN at = {}
    BY <2>1
  <2> HIDE DEF at
  <2>3. FromLeft(at) = <<>>
    <3>1. FromLeft(at) = [k \in DOMAIN at |-> FromLeft(at)[k]]
      BY DEF FromLeft
    <3> QED BY <2>2, <3>1
  <2>4. RowLayers(<<>>, i) = {}
    BY DEF RowLayers
  <2> QED BY <1>1, <1>3, <2>3, <2>4
<1> QED BY <1>2, <1>3

\* Two opposite sides of four are upright, between the same heights.
LEMMA FourSides ==
    ASSUME NEW x \in Int, NEW z \in Int, NEW a \in Int, NEW b \in Int, NEW row \in Int, NEW i \in Int,
           Grain \in Int, NEW lines,
           lines = <<Level(x, z, a), Upright(z, a, b), Level(z, x, b), Upright(x, b, a)>>
    PROVE  RowLayers(Crossings(lines, row), i) = IF HasMiddle(a, b, row) /\ Overlaps(x, z, i) THEN {1} ELSE {}
<1> DEFINE C == Cutting(lines, row)
           k == Level(x, z, a)
           l == Upright(z, a, b)
           m == Level(z, x, b)
           n == Upright(x, b, a)
<1>1. ~ Cuts(k, row) /\ ~ Cuts(m, row)
  BY LevelCutsNothing
<1>2. (Cuts(l, row) <=> HasMiddle(a, b, row)) /\ (Cuts(n, row) <=> HasMiddle(a, b, row))
  BY UprightCuts
<1>3. lines = <<k, l, m, n>>
  OBVIOUS
<1> HIDE DEF k, l, m, n
<1>4. ToSet(lines) = {k, l, m, n}
  BY <1>3 DEF ToSet
<1>5. k \notin C /\ m \notin C /\ (l \in C <=> HasMiddle(a, b, row)) /\ (n \in C <=> HasMiddle(a, b, row))
  BY <1>1, <1>2, <1>4 DEF Cutting
<1> HIDE DEF C
<1>6. Retained(lines, C) = IF HasMiddle(a, b, row) THEN <<l, n>> ELSE <<>>
  BY <1>3, <1>5, FourRetained
<1>7. CutByTwo(lines, row, z, x, a, b)
  BY <1>6 DEF C, CutByTwo, l, n
<1>8. RowLayers(Crossings(lines, row), i) = IF HasMiddle(a, b, row) /\ Overlaps(z, x, i) THEN {1} ELSE {}
  BY <1>7, LayersOfUprights
<1>9. Overlaps(z, x, i) <=> Overlaps(x, z, i)
  <2>1. Lesser(x, z) = Lesser(z, x) /\ Greater(x, z) = Greater(z, x)
    BY DEF Lesser, Greater
  <2> QED BY <2>1 DEF Overlaps
<1> QED BY <1>8, <1>9

\* A transform of whole numbers.
IsTransform(t) == t \in Int \X Int \X Int \X Int \X Int \X Int \X (Nat \ {0})

LEMMA GrainIsPositive ==
    ASSUME IsTransform(Now.transform)
    PROVE  Grain \in Int /\ Grain > 0
<1>1. Unit \in Nat \ {0} /\ Now.transform[7] \in Nat \ {0}
  BY CanvasAssumption DEF IsTransform
<1> DEFINE n == Now.transform[7]
<1> HIDE DEF n
<1>2. n \in Nat \ {0} => Unit * n \in Int /\ Unit * n > 0
  BY <1>1, SMT
<1> QED BY <1>1, <1>2 DEF Grain, n

\* Without a turn a corner has a place across of its own and one down.
LEMMA TransformedCorners ==
    ASSUME NEW t, t = Now.transform, IsTransform(t), t[2] = 0, t[3] = 0, NEW x \in Int, NEW y \in Int
    PROVE  /\ Corner(x, y) = <<t[1] * x + t[5], t[4] * y + t[6]>>
           /\ t[1] * x + t[5] \in Int /\ t[4] * y + t[6] \in Int
<1>1. t[1] \in Int /\ t[4] \in Int /\ t[5] \in Int /\ t[6] \in Int
  BY DEF IsTransform
<1>2. Corner(x, y) = <<t[1] * x + 0 * y + t[5], 0 * x + t[4] * y + t[6]>>
  BY DEF Corner, Transformed
<1> DEFINE k == t[1] * x
           l == t[4] * y
           o == 0 * y
           r == 0 * x
<1>3. k \in Int /\ l \in Int /\ o = 0 /\ r = 0
  BY <1>1
<1>4. Corner(x, y) = <<k + o + t[5], r + l + t[6]>>
  BY <1>2
<1> HIDE DEF k, l, o, r
<1>5. k + o + t[5] = k + t[5] /\ r + l + t[6] = l + t[6] /\ k + t[5] \in Int /\ l + t[6] \in Int
  BY <1>1, <1>3
<1> QED BY <1>4, <1>5 DEF k, l

\* A row whose middle lies between two heights has a part between them.
LEMMA MiddleOverlaps ==
    ASSUME NEW a \in Int, NEW b \in Int, NEW row \in Int, Grain \in Int, Grain > 0, HasMiddle(a, b, row)
    PROVE  Overlaps(a, b, row)
<1> DEFINE p == row * Grain
           lo == Lesser(a, b)
           hi == Greater(a, b)
<1>1. p \in Int /\ lo \in Int /\ hi \in Int
  BY DEF Lesser, Greater
<1>2. (2 * row + 1) * Grain = 2 * p + Grain /\ (row + 1) * Grain = p + Grain
  BY SMT
<1>3. 2 * lo <= 2 * p + Grain /\ 2 * p + Grain < 2 * hi
  BY <1>2 DEF HasMiddle
<1> HIDE DEF p, lo, hi
<1>4. lo < p + Grain /\ p < hi
  BY <1>1, <1>3
<1> QED BY <1>2, <1>4 DEF Overlaps, p, lo, hi

\* What a rectangle has of a pixel, as a path and at once.
LEMMA RectLayers ==
    ASSUME NEW t, t = Now.transform, IsTransform(t), t[2] = 0, t[3] = 0,
           NEW x \in Int, NEW y \in Int, NEW w \in Int, NEW h \in Int, NEW c \in Cells
    PROVE  LET a == t[4] * y + t[6]
               b == t[4] * (y + h) + t[6]
           IN  /\ Layers(AsPath(<<x, y, w, h>>), c)
                    = IF HasMiddle(a, b, c[2]) /\ c \in Covered(<<x, y, w, h>>) THEN {1} ELSE {}
<1> DEFINE u == x + w
           v == y + h
           box == <<x, y, w, h>>
           lines == AsPath(box)
           d == t[1] * x + t[5]
           e == t[1] * u + t[5]
           a == t[4] * y + t[6]
           b == t[4] * v + t[6]
<1>1. u \in Int /\ v \in Int
  OBVIOUS
<1>2. c[1] \in Int /\ c[2] \in Int
  BY CanvasAssumption DEF Cells
<1>3. Grain \in Int /\ Grain > 0
  BY GrainIsPositive
<1>4. lines = Flattened(<<RectOp(x, y, u, v)>>)
  BY DEF AsPath, RectOp
<1>5. Covered(box) = {f \in Cells : \A i \in 1 .. 2 :
                        /\ Lesser(Corner(x, y)[i], Corner(u, v)[i]) < (f[i] + 1) * Grain
                        /\ f[i] * Grain < Greater(Corner(x, y)[i], Corner(u, v)[i])}
  BY DEF Covered, Corner
<1> HIDE DEF u, v, lines, box
<1>6. /\ Corner(x, y) = <<d, a>> /\ Corner(u, v) = <<e, b>>
      /\ Corner(u, y) = <<e, a>> /\ Corner(x, v) = <<d, b>>
      /\ d \in Int /\ e \in Int /\ a \in Int /\ b \in Int
  <2>1. Corner(x, y) = <<d, a>> /\ d \in Int /\ a \in Int
    BY TransformedCorners, Zenon
  <2>2. Corner(u, v) = <<e, b>> /\ e \in Int /\ b \in Int
    BY <1>1, TransformedCorners, Zenon
  <2>3. Corner(u, y) = <<e, a>>
    BY <1>1, TransformedCorners, Zenon
  <2>4. Corner(x, v) = <<d, b>>
    BY <1>1, TransformedCorners, Zenon
  <2> QED BY <2>1, <2>2, <2>3, <2>4
<1> HIDE DEF a, b, d, e
<1>7. lines = <<Level(d, e, a), Upright(e, a, b), Level(e, d, b), Upright(d, b, a)>>
  BY <1>4, <1>6, RectLines DEF Level, Upright
<1>8. Layers(lines, c) = IF HasMiddle(a, b, c[2]) /\ Overlaps(d, e, c[1]) THEN {1} ELSE {}
  <2>1. Layers(lines, c) = RowLayers(Crossings(lines, c[2]), c[1])
    BY LayersByRow, Zenon
  <2>2. RowLayers(Crossings(lines, c[2]), c[1])
          = IF HasMiddle(a, b, c[2]) /\ Overlaps(d, e, c[1]) THEN {1} ELSE {}
    BY <1>2, <1>3, <1>6, <1>7, FourSides, Zenon
  <2> QED BY <2>1, <2>2
<1>9. c \in Covered(box) <=> Overlaps(d, e, c[1]) /\ Overlaps(a, b, c[2])
  <2>1. Corner(x, y)[1] = d /\ Corner(x, y)[2] = a /\ Corner(u, v)[1] = e /\ Corner(u, v)[2] = b
    BY <1>6
  <2>2. 1 .. 2 = {1, 2}
    OBVIOUS
  <2> QED BY <1>5, <2>1, <2>2 DEF Overlaps
<1>10. HasMiddle(a, b, c[2]) => Overlaps(a, b, c[2])
  BY <1>2, <1>3, <1>6, MiddleOverlaps
<1>11. Layers(lines, c) = IF HasMiddle(a, b, c[2]) /\ c \in Covered(box) THEN {1} ELSE {}
  BY <1>8, <1>9, <1>10
<1> QED BY <1>11 DEF lines, box, a, b, v

LEMMA RectAgrees ==
    ASSUME NEW t, t = Now.transform, IsTransform(t), t[2] = 0, t[3] = 0, ~ HasShadow,
           NEW x \in Int, NEW y \in Int, NEW w \in Int, NEW h \in Int, NEW c \in Cells
    PROVE  FilledPath(AsPath(<<x, y, w, h>>))[c]
             = IF HasMiddle(t[4] * y + t[6], t[4] * (y + h) + t[6], c[2])
               THEN FilledRect(<<x, y, w, h>>)[c] ELSE pixels[c]
<1> DEFINE box == <<x, y, w, h>>
           lines == AsPath(box)
           M == HasMiddle(t[4] * y + t[6], t[4] * (y + h) + t[6], c[2])
<1>1. Layers(lines, c) = IF M /\ c \in Covered(box) THEN {1} ELSE {}
  BY RectLayers
<1> HIDE DEF lines, box, M
<1>2. FilledPath(lines)[c] = IF c \in Clipped(Enclosed(lines))
                             THEN Coated(pixels[c], Now.fill, c, Cardinality(Layers(lines, c))) ELSE pixels[c]
  BY DEF FilledPath
<1>3. FilledRect(box)[c] = IF c \in Clipped(Covered(box)) THEN Coated(pixels[c], Now.fill, c, 1) ELSE pixels[c]
  BY DEF FilledRect
<1>4. c \in Enclosed(lines) <=> M /\ c \in Covered(box)
  BY <1>1 DEF Enclosed
<1>5. /\ c \in Clipped(Enclosed(lines)) <=> c \in Enclosed(lines) /\ (mask = NoClip \/ c \in mask)
      /\ c \in Clipped(Covered(box)) <=> c \in Covered(box) /\ (mask = NoClip \/ c \in mask)
  BY DEF Clipped
<1>6. M /\ c \in Covered(box) => Cardinality(Layers(lines, c)) = 1
  BY <1>1, FS_Singleton
<1>7. FilledPath(lines)[c] = IF M THEN FilledRect(box)[c] ELSE pixels[c]
  BY <1>2, <1>3, <1>4, <1>5, <1>6
<1> QED BY <1>7 DEF lines, box, M

-----------------------------------------------------------------------------
(* Canvas: the stack of states.                                            *)

States(F, G, W, C, A, O, D, B, P, T) ==
    [fill : F, stroke : G, width : W, cap : C, alpha : A,
     op : O, shadowColor : D, blur : B, shadowAt : P, transform : T]

\* Of a state it matters how it transforms.
IsState(s) == (\E F, G, W, C, A, O, D, B, P, T : s \in States(F, G, W, C, A, O, D, B, P, T)) /\ IsTransform(s.transform)

LEMMA DefaultIsState == IsState(DefaultState)
<1> DEFINE d == DefaultState
<1>1. d \in States({d.fill}, {d.stroke}, {d.width}, {d.cap}, {d.alpha}, {d.op}, {d.shadowColor}, {d.blur},
                   {d.shadowAt}, {d.transform})
  BY DEF DefaultState, States
<1>2. d.transform = <<1, 0, 0, 1, 0, 0, 1>>
  BY DEF DefaultState
<1>3. IsTransform(<<1, 0, 0, 1, 0, 0, 1>>)
  BY DEF IsTransform
<1> HIDE DEF d
<1>4. IsState(d)
  BY <1>1, <1>2, <1>3 DEF IsState
<1> QED BY <1>4 DEF d

LEMMA StateChanges ==
    ASSUME NEW s, IsState(s), NEW v
    PROVE  /\ IsState([s EXCEPT !.fill = v]) /\ IsState([s EXCEPT !.stroke = v])
           /\ IsState([s EXCEPT !.width = v]) /\ IsState([s EXCEPT !.cap = v])
           /\ IsState([s EXCEPT !.alpha = v]) /\ IsState([s EXCEPT !.op = v])
           /\ IsState([s EXCEPT !.shadowColor = v]) /\ IsState([s EXCEPT !.blur = v])
           /\ IsState([s EXCEPT !.shadowAt = v])
           /\ IsTransform(v) => IsState([s EXCEPT !.transform = v])
<1>1. PICK F, G, W, C, A, O, D, B, P, T : s \in States(F, G, W, C, A, O, D, B, P, T)
  BY DEF IsState
<1>2. IsTransform(s.transform)
  BY DEF IsState
<1>3. IsState([s EXCEPT !.fill = v])
  <2>1. [s EXCEPT !.fill = v] \in States(F \cup {v}, G, W, C, A, O, D, B, P, T)
    BY <1>1 DEF States
  <2>2. [s EXCEPT !.fill = v].transform = s.transform
    BY <1>1 DEF States
  <2> QED BY <1>2, <2>1, <2>2 DEF IsState
<1>4. IsState([s EXCEPT !.stroke = v])
  <2>1. [s EXCEPT !.stroke = v] \in States(F, G \cup {v}, W, C, A, O, D, B, P, T)
    BY <1>1 DEF States
  <2>2. [s EXCEPT !.stroke = v].transform = s.transform
    BY <1>1 DEF States
  <2> QED BY <1>2, <2>1, <2>2 DEF IsState
<1>5. IsState([s EXCEPT !.width = v])
  <2>1. [s EXCEPT !.width = v] \in States(F, G, W \cup {v}, C, A, O, D, B, P, T)
    BY <1>1 DEF States
  <2>2. [s EXCEPT !.width = v].transform = s.transform
    BY <1>1 DEF States
  <2> QED BY <1>2, <2>1, <2>2 DEF IsState
<1>6. IsState([s EXCEPT !.cap = v])
  <2>1. [s EXCEPT !.cap = v] \in States(F, G, W, C \cup {v}, A, O, D, B, P, T)
    BY <1>1 DEF States
  <2>2. [s EXCEPT !.cap = v].transform = s.transform
    BY <1>1 DEF States
  <2> QED BY <1>2, <2>1, <2>2 DEF IsState
<1>7. IsState([s EXCEPT !.alpha = v])
  <2>1. [s EXCEPT !.alpha = v] \in States(F, G, W, C, A \cup {v}, O, D, B, P, T)
    BY <1>1 DEF States
  <2>2. [s EXCEPT !.alpha = v].transform = s.transform
    BY <1>1 DEF States
  <2> QED BY <1>2, <2>1, <2>2 DEF IsState
<1>8. IsState([s EXCEPT !.op = v])
  <2>1. [s EXCEPT !.op = v] \in States(F, G, W, C, A, O \cup {v}, D, B, P, T)
    BY <1>1 DEF States
  <2>2. [s EXCEPT !.op = v].transform = s.transform
    BY <1>1 DEF States
  <2> QED BY <1>2, <2>1, <2>2 DEF IsState
<1>9. IsState([s EXCEPT !.shadowColor = v])
  <2>1. [s EXCEPT !.shadowColor = v] \in States(F, G, W, C, A, O, D \cup {v}, B, P, T)
    BY <1>1 DEF States
  <2>2. [s EXCEPT !.shadowColor = v].transform = s.transform
    BY <1>1 DEF States
  <2> QED BY <1>2, <2>1, <2>2 DEF IsState
<1>10. IsState([s EXCEPT !.blur = v])
  <2>1. [s EXCEPT !.blur = v] \in States(F, G, W, C, A, O, D, B \cup {v}, P, T)
    BY <1>1 DEF States
  <2>2. [s EXCEPT !.blur = v].transform = s.transform
    BY <1>1 DEF States
  <2> QED BY <1>2, <2>1, <2>2 DEF IsState
<1>11. IsState([s EXCEPT !.shadowAt = v])
  <2>1. [s EXCEPT !.shadowAt = v] \in States(F, G, W, C, A, O, D, B, P \cup {v}, T)
    BY <1>1 DEF States
  <2>2. [s EXCEPT !.shadowAt = v].transform = s.transform
    BY <1>1 DEF States
  <2> QED BY <1>2, <2>1, <2>2 DEF IsState
<1>12. ASSUME IsTransform(v) PROVE IsState([s EXCEPT !.transform = v])
  <2>1. [s EXCEPT !.transform = v] \in States(F, G, W, C, A, O, D, B, P, T \cup {v})
    BY <1>1 DEF States
  <2>2. [s EXCEPT !.transform = v].transform = v
    BY <1>1 DEF States
  <2> QED BY <1>12, <2>1, <2>2 DEF IsState
<1> QED BY <1>3, <1>4, <1>5, <1>6, <1>7, <1>8, <1>9, <1>10, <1>11, <1>12

\* Whole numbers stay whole.
LEMMA SumOfProducts ==
    ASSUME NEW a \in Int, NEW b \in Int, NEW x \in Int, NEW y \in Int, NEW e \in Int
    PROVE  /\ a * x \in Int /\ a * x + b * y \in Int /\ a * x - b * y \in Int
           /\ e + a * x + b * y \in Int
<1>1. a * x \in Int /\ b * y \in Int
  OBVIOUS
<1> QED BY <1>1

LEMMA TransformsStayWhole ==
    ASSUME NEW t, IsTransform(t), NEW x \in Int, NEW y \in Int, NEW n \in Nat \ {0}
    PROVE  /\ IsTransform([t EXCEPT ![5] = @ + t[1] * x + t[3] * y, ![6] = @ + t[2] * x + t[4] * y])
           /\ IsTransform(<<t[1] * x + t[3] * y, t[2] * x + t[4] * y, t[3] * x - t[1] * y,
                            t[4] * x - t[2] * y, t[5] * n, t[6] * n, t[7] * n>>)
           /\ IsTransform(<<t[1] * x, t[2] * x, t[3] * y, t[4] * y, t[5], t[6], t[7]>>)
<1>1. /\ t[1] \in Int /\ t[2] \in Int /\ t[3] \in Int /\ t[4] \in Int /\ t[5] \in Int /\ t[6] \in Int
      /\ t[7] \in Nat \ {0} /\ n \in Int
      /\ t = <<t[1], t[2], t[3], t[4], t[5], t[6], t[7]>>
  BY DEF IsTransform
<1>2. IsTransform([t EXCEPT ![5] = @ + t[1] * x + t[3] * y, ![6] = @ + t[2] * x + t[4] * y])
  <2> DEFINE k == t[5] + t[1] * x + t[3] * y
             l == t[6] + t[2] * x + t[4] * y
  <2>1. k \in Int /\ l \in Int
    BY <1>1, SumOfProducts
  <2> HIDE DEF k, l
  <2>2. [t EXCEPT ![5] = k, ![6] = l] = <<t[1], t[2], t[3], t[4], k, l, t[7]>>
    BY <1>1
  <2>3. IsTransform(<<t[1], t[2], t[3], t[4], k, l, t[7]>>)
    BY <1>1, <2>1 DEF IsTransform
  <2> QED BY <2>2, <2>3 DEF k, l
<1>3. IsTransform(<<t[1] * x + t[3] * y, t[2] * x + t[4] * y, t[3] * x - t[1] * y,
                    t[4] * x - t[2] * y, t[5] * n, t[6] * n, t[7] * n>>)
  <2> DEFINE a == t[1] * x + t[3] * y
             b == t[2] * x + t[4] * y
             c == t[3] * x - t[1] * y
             d == t[4] * x - t[2] * y
             e == t[5] * n
             f == t[6] * n
             g == t[7] * n
  <2>1. a \in Int /\ b \in Int /\ c \in Int /\ d \in Int /\ e \in Int /\ f \in Int
    BY <1>1, SumOfProducts
  <2>2. g \in Nat \ {0}
    <3> DEFINE m == t[7]
    <3> HIDE DEF m
    <3>1. m \in Nat \ {0} => m * n \in Nat \ {0}
      BY SMT
    <3> QED BY <1>1, <3>1 DEF m
  <2> HIDE DEF a, b, c, d, e, f, g
  <2>3. IsTransform(<<a, b, c, d, e, f, g>>)
    BY <2>1, <2>2 DEF IsTransform
  <2> QED BY <2>3 DEF a, b, c, d, e, f, g
<1>4. IsTransform(<<t[1] * x, t[2] * x, t[3] * y, t[4] * y, t[5], t[6], t[7]>>)
  <2> DEFINE a == t[1] * x
             b == t[2] * x
             c == t[3] * y
             d == t[4] * y
  <2>1. a \in Int /\ b \in Int /\ c \in Int /\ d \in Int
    BY <1>1, SumOfProducts
  <2> HIDE DEF a, b, c, d
  <2>2. IsTransform(<<a, b, c, d, t[5], t[6], t[7]>>)
    BY <1>1, <2>1 DEF IsTransform
  <2> QED BY <2>2 DEF a, b, c, d
<1> QED BY <1>2, <1>3, <1>4

IsStack(ss) == \E S : ss \in Seq(S) /\ ss # <<>> /\ \A s \in S : IsState(s)

CanvasInv == IsStack(saved)

LEMMA TopOfStack ==
    ASSUME IsStack(saved)
    PROVE  IsState(Now) /\ IsTransform(Now.transform)
<1>1. PICK S : saved \in Seq(S) /\ saved # <<>> /\ \A s \in S : IsState(s)
  BY DEF IsStack
<1>2. Len(saved) \in 1 .. Len(saved)
  BY <1>1
<1>3. Now \in S
  BY <1>1, <1>2 DEF Now
<1> QED BY <1>1, <1>3 DEF IsState

LEMMA StackChanges ==
    ASSUME NEW ss, IsStack(ss), NEW s, IsState(s)
    PROVE  /\ IsStack(Append(ss, s)) /\ IsStack([ss EXCEPT ![Len(ss)] = s])
           /\ Len(ss) > 1 => IsStack(Front(ss))
<1>1. PICK S : ss \in Seq(S) /\ ss # <<>> /\ \A r \in S : IsState(r)
  BY DEF IsStack
<1> DEFINE T == S \cup {s}
<1>2. \A r \in T : IsState(r)
  BY <1>1
<1>3. ss \in Seq(T) /\ Len(ss) \in Nat /\ Len(ss) >= 1
  BY <1>1
<1>4. IsStack(Append(ss, s))
  <2>1. s \in T
    OBVIOUS
  <2> HIDE DEF T
  <2>2. Append(ss, s) \in Seq(T) /\ Append(ss, s) # <<>>
    BY <1>3, <2>1
  <2> QED BY <1>2, <2>2 DEF IsStack
<1>5. IsStack([ss EXCEPT ![Len(ss)] = s])
  <2>1. s \in T
    OBVIOUS
  <2> HIDE DEF T
  <2>2. [ss EXCEPT ![Len(ss)] = s] \in Seq(T) /\ [ss EXCEPT ![Len(ss)] = s] # <<>>
    BY <1>3, <2>1
  <2> QED BY <1>2, <2>2 DEF IsStack
<1>6. ASSUME Len(ss) > 1 PROVE IsStack(Front(ss))
  <2> HIDE DEF T
  <2>1. Front(ss) = SubSeq(ss, 1, Len(ss) - 1)
    BY DEF Front
  <2>2. SubSeq(ss, 1, Len(ss) - 1) \in Seq(S)
    BY <1>1, <1>3, <1>6
  <2>3. SubSeq(ss, 1, Len(ss) - 1) # <<>>
    <3>1. Len(SubSeq(ss, 1, Len(ss) - 1)) = Len(ss) - 1
      <4> DEFINE n == Len(ss) - 1
      <4>1. n \in Nat /\ n <= Len(ss)
        BY <1>3, <1>6
      <4> HIDE DEF n
      <4>2. SubSeq(ss, 1, n) = [i \in 1 .. n |-> ss[i]]
        BY <1>1, <4>1
      <4>3. Len(SubSeq(ss, 1, n)) = n
        BY <4>1, <4>2
      <4> QED BY <4>3 DEF n
    <3>2. Len(ss) - 1 # 0
      <4> DEFINE n == Len(ss)
      <4>1. n \in Nat /\ n > 1
        BY <1>3, <1>6
      <4> HIDE DEF n
      <4>2. n - 1 # 0
        BY <4>1
      <4> QED BY <4>2 DEF n
    <3> QED BY <3>1, <3>2
  <2> QED BY <1>1, <2>1, <2>2, <2>3 DEF IsStack
<1> QED BY <1>4, <1>5, <1>6

LEMMA CanvasInvAtInit == CanvasInit => CanvasInv
<1> DEFINE ss == <<DefaultState>>
           S == {DefaultState}
<1>1. ss \in Seq(S) /\ ss # <<>> /\ \A s \in S : IsState(s)
  BY DefaultIsState
<1> HIDE DEF ss, S
<1>2. IsStack(ss)
  BY <1>1 DEF IsStack
<1> QED BY <1>2 DEF CanvasInit, CanvasInv, ss

LEMMA KeptByChange ==
    ASSUME CanvasInv, NEW s, IsState(s), Change(s)
    PROVE  CanvasInv'
<1>1. IsStack(saved')
  BY StackChanges DEF CanvasInv, Change
<1> QED BY <1>1 DEF CanvasInv, IsStack

\* The calls that change the transform.
LEMMA KeptByTransform ==
    ASSUME CanvasInv, NEW v, IsTransform(v), Change([Now EXCEPT !.transform = v])
    PROVE  CanvasInv'
<1>1. IsState(Now)
  BY TopOfStack DEF CanvasInv
<1>2. IsState([Now EXCEPT !.transform = v])
  BY <1>1, StateChanges
<1> QED BY <1>2, KeptByChange

LEMMA KeptByMoves ==
    ASSUME CanvasInv, NEW x \in Int, NEW y \in Int, Translate(x, y) \/ Scale(x, y)
    PROVE  CanvasInv'
<1> DEFINE t == Now.transform
           moved == [t EXCEPT ![5] = @ + t[1] * x + t[3] * y, ![6] = @ + t[2] * x + t[4] * y]
           scaled == <<t[1] * x, t[2] * x, t[3] * y, t[4] * y, t[5], t[6], t[7]>>
<1>1. IsState(Now) /\ IsTransform(t)
  BY TopOfStack DEF CanvasInv
<1>2. "transform" \in DOMAIN Now
  BY <1>1 DEF IsState, States
<1>3. IsTransform(moved) /\ IsTransform(scaled)
  <2>1. 1 \in Nat \ {0}
    OBVIOUS
  <2> QED BY <1>1, <2>1, TransformsStayWhole
<1>4. Change([Now EXCEPT !.transform = moved]) \/ Change([Now EXCEPT !.transform = scaled])
  BY <1>2 DEF Translate, Scale
<1> HIDE DEF moved, scaled
<1> QED BY <1>3, <1>4, KeptByTransform

LEMMA KeptByTurns ==
    ASSUME CanvasInv, NEW turn \in Turns, Rotate(turn)
    PROVE  CanvasInv'
<1> DEFINE t == Now.transform
           cos == turn[1]
           sin == turn[2]
           n == turn[3]
           turned == <<t[1] * cos + t[3] * sin, t[2] * cos + t[4] * sin, t[3] * cos - t[1] * sin,
                       t[4] * cos - t[2] * sin, t[5] * n, t[6] * n, t[7] * n>>
<1>1. IsState(Now) /\ IsTransform(t)
  BY TopOfStack DEF CanvasInv
<1>2. "transform" \in DOMAIN Now
  BY <1>1 DEF IsState, States
<1>3. cos \in Int /\ sin \in Int /\ n \in Nat \ {0}
  BY CanvasAssumption
<1>4. Change([Now EXCEPT !.transform = turned])
  BY <1>2 DEF Rotate
<1> HIDE DEF cos, sin, n
<1>5. IsTransform(turned)
  BY <1>1, <1>3, TransformsStayWhole
<1> HIDE DEF turned
<1> QED BY <1>4, <1>5, KeptByTransform

LEMMA KeptBySettings ==
    ASSUME CanvasInv, ResetTransform \/ \E m \in Matrices : SetTransform(m)
    PROVE  CanvasInv'
<1>1. IsTransform(DefaultState.transform)
  BY DefaultIsState DEF IsState
<1>2. \A m \in Matrices : IsTransform(m)
  BY CanvasAssumption DEF IsTransform
<1>3. \E v : IsTransform(v) /\ Change([Now EXCEPT !.transform = v])
  BY <1>1, <1>2 DEF ResetTransform, SetTransform
<1> QED BY <1>3, KeptByTransform

LEMMA KeptByStyles ==
    ASSUME CanvasInv, NEW v,
           \/ SetFillStyle(v) \/ SetStrokeStyle(v) \/ SetLineWidth(v) \/ SetGlobalAlpha(v) \/ SetLineCap(v)
           \/ SetOperation(v) \/ SetShadowColor(v) \/ SetShadowBlur(v)
           \/ \E i \in 1 .. 2 : SetShadowOffset(i, v)
    PROVE  CanvasInv'
<1>1. IsState(Now)
  BY TopOfStack DEF CanvasInv
<1>2. CASE SetFillStyle(v)
  BY <1>1, <1>2, StateChanges, KeptByChange DEF SetFillStyle
<1>3. CASE SetStrokeStyle(v)
  BY <1>1, <1>3, StateChanges, KeptByChange DEF SetStrokeStyle
<1>4. CASE SetLineWidth(v)
  BY <1>1, <1>4, StateChanges, KeptByChange DEF SetLineWidth
<1>5. CASE SetGlobalAlpha(v)
  BY <1>1, <1>5, StateChanges, KeptByChange DEF SetGlobalAlpha
<1>6. CASE SetLineCap(v)
  BY <1>1, <1>6, StateChanges, KeptByChange DEF SetLineCap
<1>7. CASE SetOperation(v)
  BY <1>1, <1>7, StateChanges, KeptByChange DEF SetOperation
<1>8. CASE SetShadowColor(v)
  BY <1>1, <1>8, StateChanges, KeptByChange DEF SetShadowColor
<1>9. CASE SetShadowBlur(v)
  BY <1>1, <1>9, StateChanges, KeptByChange DEF SetShadowBlur
<1>10. ASSUME NEW i \in 1 .. 2, SetShadowOffset(i, v) PROVE CanvasInv'
  <2>1. "shadowAt" \in DOMAIN Now
    BY <1>1 DEF IsState, States
  <2> DEFINE at == [Now.shadowAt EXCEPT ![i] = v]
  <2>2. Change([Now EXCEPT !.shadowAt = at])
    BY <1>10, <2>1 DEF SetShadowOffset
  <2> HIDE DEF at
  <2>3. IsState([Now EXCEPT !.shadowAt = at])
    BY <1>1, StateChanges
  <2> QED BY <2>2, <2>3, KeptByChange
<1> QED BY <1>2, <1>3, <1>4, <1>5, <1>6, <1>7, <1>8, <1>9, <1>10

\* The calls that leave the states as they are.
LEMMA KeptByDrawing ==
    ASSUME CanvasInv, UNCHANGED saved
    PROVE  CanvasInv'
BY DEF CanvasInv, IsStack

LEMMA CanvasInvKept == CanvasInv /\ [CanvasNext]_canvasVars => CanvasInv'
<1> SUFFICES ASSUME CanvasInv, [CanvasNext]_canvasVars PROVE CanvasInv'
  OBVIOUS
<1>1. CASE Save \/ Restore
  <2>1. IsState(Now)
    BY TopOfStack DEF CanvasInv
  <2>2. IsStack(saved')
    BY <1>1, <2>1, StackChanges DEF Save, Restore, CanvasInv
  <2> QED BY <2>2 DEF CanvasInv, IsStack
<1>2. CASE BeginPath \/ ClosePath \/ Fill \/ Stroke \/ Clip
  <2>1. UNCHANGED saved
    BY <1>2 DEF BeginPath, ClosePath, PathCall, Fill, Stroke, Clip
  <2> QED BY <2>1, KeptByDrawing
<1>3. CASE ResetTransform \/ \E m \in Matrices : SetTransform(m)
  BY <1>3, KeptBySettings
<1>4. CASE \E s \in Styles : SetFillStyle(s) \/ SetStrokeStyle(s)
  BY <1>4, KeptByStyles
<1>5. CASE \E w \in LineWidths : SetLineWidth(w)
  BY <1>5, KeptByStyles
<1>6. CASE \E a \in {0, 1, Unit + 1} : SetGlobalAlpha(a)
  BY <1>6, KeptByStyles
<1>7. CASE \E cap \in {"butt", "round", "square"} : SetLineCap(cap)
  BY <1>7, KeptByStyles
<1>8. CASE \E op \in Blends : SetOperation(op)
  BY <1>8, KeptByStyles
<1>9. CASE \E c \in Colors : SetShadowColor(c)
  BY <1>9, KeptByStyles
<1>10. CASE \E b \in Blurs : SetShadowBlur(b)
  BY <1>10, KeptByStyles
<1>11. CASE \E i \in 1 .. 2 : SetShadowOffset(i, 1)
  BY <1>11, KeptByStyles
<1>12. CASE \E turn \in Turns : Rotate(turn)
  BY <1>12, KeptByTurns
<1>13. ASSUME NEW p \in Corners, Translate(p[1], p[2]) \/ Scale(p[1], - p[2])
       PROVE  CanvasInv'
  <2>1. p[1] \in Int /\ p[2] \in Int /\ - p[2] \in Int
    BY CanvasAssumption
  <2> QED BY <1>13, <2>1, KeptByMoves
<1>14. ASSUME NEW p \in Corners,
              \/ MoveTo(p) \/ LineTo(p) \/ FillText(p) \/ StrokeText(p)
              \/ DrawImage(ImageData(0, 0, Width, Height), p)
              \/ \E q \in Corners : Arc(p, q) \/ Curve(p, q) \/ CreateGradient(p, q)
       PROVE  CanvasInv'
  <2>1. UNCHANGED saved
    BY <1>14 DEF MoveTo, LineTo, Arc, Curve, PathCall, FillText, StrokeText, DrawImage, Draw, CreateGradient
  <2> QED BY <2>1, KeptByDrawing
<1>15. CASE \E g \in DOMAIN gradients, offset \in {-1, 1, Unit + 1}, c \in Colors : AddColorStop(g, offset, c)
  <2>1. UNCHANGED saved
    BY <1>15 DEF AddColorStop
  <2> QED BY <2>1, KeptByDrawing
<1>16. ASSUME NEW box \in Boxes,
              \/ ClearRect(box) \/ FillRect(box) \/ AddRect(box)
              \/ PutImageData(ImageData(0, 0, 1, 1), box[1], box[2])
       PROVE  CanvasInv'
  <2>1. UNCHANGED saved
    BY <1>16 DEF ClearRect, FillRect, AddRect, PathCall, PutImageData, Draw
  <2> QED BY <2>1, KeptByDrawing
<1>17. CASE UNCHANGED canvasVars
  BY <1>17, KeptByDrawing DEF canvasVars
<1>18. CASE CanvasNext
  BY <1>1, <1>2, <1>3, <1>4, <1>5, <1>6, <1>7, <1>8, <1>9, <1>10, <1>11, <1>12, <1>13, <1>14, <1>15, <1>16,
     <1>18 DEF CanvasNext
<1> QED BY <1>17, <1>18

\* Where the states have transforms of whole numbers, the rectangles agree.
LEMMA CanvasInvAgrees == CanvasInv => RectsAgree
<1> DEFINE t == Now.transform
<1> SUFFICES ASSUME CanvasInv, t[2] = 0, t[3] = 0, ~ HasShadow, NEW box \in Boxes, NEW c \in Cells
             PROVE  FilledPath(AsPath(box))[c] =
                        IF HasMiddle(t[4] * box[2] + t[6], t[4] * (box[2] + box[4]) + t[6], c[2])
                        THEN FilledRect(box)[c] ELSE pixels[c]
  BY DEF RectsAgree, HasMiddle
<1>1. IsTransform(t)
  BY TopOfStack DEF CanvasInv
<1> DEFINE x == box[1]
           y == box[2]
           w == box[3]
           h == box[4]
<1>2. x \in Int /\ y \in Int /\ w \in Int /\ h \in Int /\ box = <<x, y, w, h>>
  BY CanvasAssumption
<1> HIDE DEF x, y, w, h, t
<1>3. FilledPath(AsPath(<<x, y, w, h>>))[c]
        = IF HasMiddle(t[4] * y + t[6], t[4] * (y + h) + t[6], c[2])
          THEN FilledRect(<<x, y, w, h>>)[c] ELSE pixels[c]
  BY <1>1, <1>2, RectAgrees DEF t
<1> QED BY <1>2, <1>3 DEF y, h

\* In every state a rectangle filled as a path paints what fill_rect paints in the
\* rows whose middle it holds, and no other row: on a surface of any size, under
\* every transform without a turn, for every clip, style, alpha and compositing
\* operation (fill_rect, fill, rasterize_fill).
THEOREM PathsFillRects == CanvasSpec => []RectsAgree
<1>1. CanvasInit => CanvasInv
  BY CanvasInvAtInit
<1>2. CanvasInv /\ [CanvasNext]_canvasVars => CanvasInv'
  BY CanvasInvKept
<1>3. CanvasInv => RectsAgree
  BY CanvasInvAgrees
<1> QED BY <1>1, <1>2, <1>3, PTL DEF CanvasSpec

=============================================================================
