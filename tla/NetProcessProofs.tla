--------------------------- MODULE NetProcessProofs ---------------------------
(***************************************************************************)
(* Proofs about NetProcess: the types; that the tasks of netproc use the   *)
(* network client one at a time; and that a fetch has its own answer,      *)
(* whole, and leaves nothing on its connection (FetchesAreWhole).          *)
(***************************************************************************)
EXTENDS NetProcess, SequenceLemmas

\* The sequences of the model keep their element type, and shrink and grow by
\* what is taken and put.
LEMMA Slices ==
    ASSUME NEW T, NEW s \in Seq(T)
    PROVE  /\ Len(s) \in Nat
           /\ \A n \in 1..Len(s) : /\ SubSeq(s, 1, n) \in Seq(T)
                                   /\ SubSeq(s, n + 1, Len(s)) \in Seq(T)
           /\ Len(s) >= 2 => SubSeq(s, 3, Len(s)) \in Seq(T) /\ s[1] \in T
           /\ s # <<>> => Head(s) \in T /\ Tail(s) \in Seq(T)
           /\ \A e \in T : Append(s, e) \in Seq(T)
           /\ \A t \in Seq(T) : s \o t \in Seq(T)
<1>1. Len(s) \in Nat
  OBVIOUS
<1>2. ASSUME NEW n \in 1..Len(s) PROVE SubSeq(s, 1, n) \in Seq(T)
  <2>1. \A i \in 1..n : s[i] \in T
    BY <1>1
  <2> QED BY <1>1, <2>1
<1>3. ASSUME NEW m \in 2..(Len(s) + 1) PROVE SubSeq(s, m, Len(s)) \in Seq(T)
  <2>1. \A i \in m..Len(s) : s[i] \in T
    BY <1>1
  <2> QED BY <1>1, <2>1
<1>4. Len(s) >= 2 => SubSeq(s, 3, Len(s)) \in Seq(T) /\ s[1] \in T
  BY <1>1, <1>3
<1>5. s # <<>> => Head(s) \in T /\ Tail(s) \in Seq(T)
  OBVIOUS
<1> QED BY <1>1, <1>2, <1>3, <1>4, <1>5

\* A frame is two units on the wire.
LEMMA EncodeType ==
    ASSUME NEW f \in Frame
    PROVE  Encode(f) \in Seq(Unit)
BY DEF Encode, Unit

USE NetProcessAssumption

\* The first state has its types.
LEMMA InitTypes == Init => TypeOK
BY DEF Init, TypeOK, Client, Server, Result, NoResult, Frame, Unit

\* What a fetch returns has its type.
LEMMA ReturnsType ==
    ASSUME TypeOK, NEW c \in Conns, NEW o \in {"ok", "error"}, Returns(c, o)
    PROVE  result' \in [Conns -> Result]
<1>1. client[c].next \in 1..(MaxFetches + 1) /\ client[c].body \in Seq(1..MaxFetches)
  BY DEF TypeOK, Client
<1>2. CurrentId(c) \in 0..MaxFetches
  BY <1>1 DEF CurrentId
<1>3. [outcome |-> o, id |-> CurrentId(c), body |-> client[c].body] \in Result
  BY <1>1, <1>2 DEF Result
<1> QED BY <1>3 DEF Returns, TypeOK

\* The steps of the client keep the types.
LEMMA ClientTypes ==
    ASSUME TypeOK, NEW c \in Conns,
           Fetch(c) \/ Caller(c) \/ WriterTask(c) \/ ReaderTask(c) \/ ClientEnds(c)
    PROVE  TypeOK'
<1> USE DEF TypeOK
<1>0. /\ client[c] \in Client /\ up[c] \in Seq(Unit) /\ down[c] \in Seq(Unit)
      /\ \A u \in Unit : u.frame \in Frame
      /\ \A f \in Frame : f.id \in 1..MaxFetches
  BY DEF Unit, Frame
<1>1. CASE Fetch(c)
  <2>1. client[c].next \in 1..MaxFetches
    <3>1. Fetches[c] \in 0..MaxFetches /\ client[c].next <= Fetches[c]
      BY <1>1, NetProcessAssumption DEF Fetch
    <3> QED
      BY <1>0, <3>1 DEF Client
  <2>2. [kind |-> "fetch", id |-> client[c].next] \in Frame
    BY <2>1 DEF Frame
  <2>3. /\ client' \in [Conns -> Client]
        /\ result' \in [Conns -> Result]
    <3>1. CASE client[c].writer
      <4> DEFINE out == Append(client[c].out, [kind |-> "fetch", id |-> client[c].next])
                 new == [client[c] EXCEPT !.next = @ + 1, !.calling = TRUE,
                                          !.body = <<>>, !.out = out]
      <4>1. /\ client' = [client EXCEPT ![c].next = @ + 1, ![c].calling = TRUE,
                                        ![c].body = <<>>, ![c].out = out]
            /\ result' = result
        BY <1>1, <3>1 DEF Fetch
      <4>2. out \in Seq(Frame)
        BY <1>0, <2>2 DEF Client
      <4>3. client[c].next + 1 \in 1..(MaxFetches + 1) /\ <<>> \in Seq(1..MaxFetches)
        BY <2>1
      <4> HIDE DEF out
      <4>4. new \in Client
        BY <1>0, <4>2, <4>3 DEF Client
      <4>5. client' = [client EXCEPT ![c] = new]
        BY <4>1
      <4> QED BY <4>1, <4>4, <4>5
    <3>2. CASE ~client[c].writer
      <4>1. client' = [client EXCEPT ![c].next = client[c].next + 1]
        BY <1>1, <3>2 DEF Fetch
      <4>2. client' \in [Conns -> Client]
        <5>1. client[c].next + 1 \in 1..(MaxFetches + 1)
          BY <2>1
        <5>2. [client[c] EXCEPT !.next = client[c].next + 1] \in Client
          BY <1>0, <5>1 DEF Client
        <5> QED BY <4>1, <5>2
      <4>3. <<>> \in Seq(1..MaxFetches)
        OBVIOUS
      <4>4. [outcome |-> "error", id |-> client[c].next, body |-> <<>>] \in Result
        BY <2>1, <4>3 DEF Result
      <4>5. result' \in [Conns -> Result]
        BY <1>1, <3>2, <4>4 DEF Fetch
      <4> QED BY <4>2, <4>5
    <3> QED BY <3>1, <3>2
  <2> QED BY <1>1, <2>3 DEF Fetch
<1>2. CASE Receive(c)
  <2> DEFINE event == Head(client[c].inq)
  <2>1. event \in Frame /\ event.id \in 1..MaxFetches
    BY <1>0, <1>2, Slices DEF Receive, Client
  <2>2. Tail(client[c].inq) \in Seq(Frame) /\ Append(client[c].body, event.id) \in Seq(1..MaxFetches)
    BY <1>0, <1>2, <2>1, Slices DEF Receive, Client
  <2>3. client' \in [Conns -> Client]
    BY <1>0, <1>2, <2>1, <2>2 DEF Receive, Client
  <2>4. result' \in [Conns -> Result]
    BY <1>2, ReturnsType DEF Receive
  <2> QED BY <1>2, <2>3, <2>4 DEF Receive
<1>3. CASE ReceiveFails(c)
  <2>1. result' \in [Conns -> Result]
    BY <1>3, ReturnsType DEF ReceiveFails
  <2>2. client' \in [Conns -> Client]
    BY <1>0, <1>3 DEF ReceiveFails, Client
  <2> QED BY <1>3, <2>1, <2>2 DEF ReceiveFails
<1>4. CASE TakeFrame(c)
  <2>1. client[c].out \in Seq(Frame) /\ client[c].out # <<>>
    BY <1>0, <1>4 DEF TakeFrame, Client
  <2>2. Tail(client[c].out) \in Seq(Frame) /\ Encode(Head(client[c].out)) \in Seq(Unit)
    BY <2>1, Slices, EncodeType
  <2>3. client' \in [Conns -> Client]
    BY <1>0, <1>4, <2>2 DEF TakeFrame, Client
  <2> QED BY <1>4, <2>3 DEF TakeFrame
<1>5. CASE WriteUp(c)
  <2>1. client[c].writing \in Seq(Unit) /\ client[c].writing # <<>>
    BY <1>0, <1>5 DEF WriteUp, Client
  <2>2. /\ Tail(client[c].writing) \in Seq(Unit)
        /\ Append(up[c], Head(client[c].writing)) \in Seq(Unit)
    BY <1>0, <2>1, Slices
  <2>3. client' \in [Conns -> Client]
    BY <1>0, <1>5, <2>2 DEF WriteUp, Client
  <2>4. up' \in [Conns -> Seq(Unit)]
    BY <1>5, <2>2 DEF WriteUp
  <2> QED BY <1>5, <2>3, <2>4 DEF WriteUp
<1>6. CASE WriterFails(c)
  BY <1>0, <1>6 DEF WriterFails, Client
<1>7. CASE ReadDown(c)
  <2>1. PICK n \in 1..Len(down[c]) :
           /\ client' = [client EXCEPT ![c].inbuf = @ \o SubSeq(down[c], 1, n)]
           /\ down' = [down EXCEPT ![c] = SubSeq(@, n + 1, Len(@))]
    BY <1>7 DEF ReadDown
  <2>2. /\ SubSeq(down[c], 1, n) \in Seq(Unit)
        /\ SubSeq(down[c], n + 1, Len(down[c])) \in Seq(Unit)
    BY <1>0, Slices
  <2>3. client[c].inbuf \o SubSeq(down[c], 1, n) \in Seq(Unit)
    BY <1>0, <2>2 DEF Client
  <2>4. client' \in [Conns -> Client]
    BY <1>0, <2>1, <2>3 DEF Client
  <2>5. down' \in [Conns -> Seq(Unit)]
    BY <2>1, <2>2
  <2> QED BY <1>7, <2>4, <2>5 DEF ReadDown
<1>8. CASE PassOn(c)
  BY <1>0, <1>8, Slices DEF PassOn, HasPayload, Payload, Advance, Client
<1>9. CASE ReaderEnds(c)
  <2>1. client' \in [Conns -> Client]
    BY <1>0, <1>9 DEF ReaderEnds, Client
  <2>2. <<>> \in Seq(Unit)
    OBVIOUS
  <2> QED BY <1>9, <2>1, <2>2 DEF ReaderEnds
<1>10. CASE ClientEnds(c)
  BY <1>0, <1>10 DEF ClientEnds, Client
<1> QED
  BY <1>1, <1>2, <1>3, <1>4, <1>5, <1>6, <1>7, <1>8, <1>9, <1>10
  DEF Caller, WriterTask, ReaderTask

\* What is written for a request is whole frames.
LEMMA EventsType ==
    ASSUME NEW id \in 1..MaxFetches, NEW ok \in BOOLEAN
    PROVE  Events(id, ok) \in Seq(Unit)
<1>1. \A kind \in {"body", "complete", "failed"} : [kind |-> kind, id |-> id] \in Frame
  BY DEF Frame
<1>2. /\ Encode([kind |-> "body", id |-> id]) \in Seq(Unit)
      /\ Encode([kind |-> "complete", id |-> id]) \in Seq(Unit)
      /\ Encode([kind |-> "failed", id |-> id]) \in Seq(Unit)
  BY <1>1, EncodeType
<1> QED BY <1>2, Slices DEF Events

\* A new state of one task keeps the types of all.
LEMMA ServerPut ==
    ASSUME TypeOK, NEW c \in Conns, NEW s \in Server,
           s.pc \in {"lock", "fetch"} => s.id # 0,
           server' = [server EXCEPT ![c] = s]
    PROVE  /\ server' \in [Conns -> Server]
           /\ \A d \in Conns : server'[d].pc \in {"lock", "fetch"} => server'[d].id # 0
BY DEF TypeOK

\* The steps of netproc keep the types.
LEMMA ServerTypes ==
    ASSUME TypeOK, NEW c \in Conns, ServerTask(c),
           server[c].pc = "write" => mutex # <<>>
    PROVE  TypeOK'
<1> USE DEF TypeOK
<1>0. /\ server[c] \in Server /\ up[c] \in Seq(Unit) /\ down[c] \in Seq(Unit)
      /\ fetched[c] \in Seq(1..MaxFetches)
  OBVIOUS
<1>a. /\ \A u \in Unit : u.frame \in Frame
      /\ \A f \in Frame : f.id \in 1..MaxFetches
  BY DEF Unit, Frame
<1>b. <<>> \in Seq(Unit)
  OBVIOUS
<1>1. CASE ServerRead(c)
  <2>1. PICK n \in 1..Len(up[c]) :
           /\ server' = [server EXCEPT ![c].buf = @ \o SubSeq(up[c], 1, n),
                                       ![c].pc = "parse"]
           /\ up' = [up EXCEPT ![c] = SubSeq(@, n + 1, Len(@))]
    BY <1>1 DEF ServerRead
  <2>2. /\ SubSeq(up[c], 1, n) \in Seq(Unit)
        /\ SubSeq(up[c], n + 1, Len(up[c])) \in Seq(Unit)
    BY <1>0, Slices
  <2>3. server[c].buf \o SubSeq(up[c], 1, n) \in Seq(Unit)
    BY <1>0, <2>2 DEF Server
  <2>4. /\ server' \in [Conns -> Server]
        /\ \A d \in Conns : server'[d].pc \in {"lock", "fetch"} => server'[d].id # 0
    BY <1>0, <2>1, <2>3 DEF Server
  <2>5. up' \in [Conns -> Seq(Unit)]
    BY <2>1, <2>2
  <2> QED BY <1>1, <2>4, <2>5 DEF ServerRead
<1>2. CASE ServerReadsEnd(c)
  BY <1>0, <1>2 DEF ServerReadsEnd, Server
<1>3. CASE ServerReadFails(c)
  <2>1. [server[c] EXCEPT !.pc = "gone"] \in Server
    BY <1>0 DEF Server
  <2>2. /\ server' \in [Conns -> Server]
        /\ \A d \in Conns : server'[d].pc \in {"lock", "fetch"} => server'[d].id # 0
    BY <1>3, <2>1, ServerPut DEF ServerReadFails, Server
  <2>3. up' \in [Conns -> Seq(Unit)]
    BY <1>b, <1>3 DEF ServerReadFails
  <2> QED BY <1>3, <2>2, <2>3 DEF ServerReadFails
<1>4. CASE ServerParse(c)
  <2>1. CASE HasPayload(server[c].buf)
    <3>1. /\ Payload(server[c].buf).id \in 1..MaxFetches
          /\ Advance(server[c].buf) \in Seq(Unit)
      BY <1>0, <1>a, <2>1, Slices DEF HasPayload, Payload, Advance, Server
    <3> DEFINE s == [server[c] EXCEPT !.pc = "lock", !.buf = Advance(server[c].buf),
                                      !.id = Payload(server[c].buf).id]
    <3>2. server' = [server EXCEPT ![c] = s]
      BY <1>4, <2>1 DEF ServerParse
    <3>s. s \in Server /\ s.id # 0
      <4>1. Payload(server[c].buf).id \in 0..MaxFetches /\ Payload(server[c].buf).id # 0
        BY <3>1
      <4>2. ASSUME NEW b \in Seq(Unit), NEW i \in 0..MaxFetches
            PROVE  /\ [server[c] EXCEPT !.pc = "lock", !.buf = b, !.id = i] \in Server
                   /\ [server[c] EXCEPT !.pc = "lock", !.buf = b, !.id = i].id = i
        BY <1>0 DEF Server
      <4> QED BY <3>1, <4>1, <4>2
    <3>3. /\ server' \in [Conns -> Server]
          /\ \A d \in Conns : server'[d].pc \in {"lock", "fetch"} => server'[d].id # 0
      <4> HIDE DEF s
      <4> QED BY <3>2, <3>s, ServerPut
    <3>4. mutex' \in Seq(Conns)
      <4>1. Append(mutex, c) \in Seq(Conns)
        BY Slices
      <4> QED BY <1>4, <2>1, <4>1 DEF ServerParse
    <3> QED BY <1>4, <3>3, <3>4 DEF ServerParse
  <2>2. CASE ~HasPayload(server[c].buf)
    <3>1. /\ server' = [server EXCEPT ![c] = [server[c] EXCEPT !.pc = "read"]]
          /\ UNCHANGED mutex
      BY <1>4, <2>2 DEF ServerParse
    <3>2. [server[c] EXCEPT !.pc = "read"] \in Server
      BY <1>0 DEF Server
    <3>3. /\ server' \in [Conns -> Server]
          /\ \A d \in Conns : server'[d].pc \in {"lock", "fetch"} => server'[d].id # 0
      BY <3>1, <3>2, ServerPut DEF Server
    <3> QED BY <1>4, <3>1, <3>3 DEF ServerParse
  <2> QED BY <2>1, <2>2
<1>5. CASE ServerLock(c)
  BY <1>0, <1>5 DEF ServerLock, Server
<1>6. CASE ServerFetch(c)
  <2>1. server[c].id \in 1..MaxFetches
    BY <1>0, <1>6 DEF ServerFetch, Server
  <2>2. fetched' \in [Conns -> Seq(1..MaxFetches)]
    BY <1>0, <1>6, <2>1 DEF ServerFetch
  <2>3. PICK ok \in BOOLEAN :
           server' = [server EXCEPT ![c].pc = "write",
                                    ![c].toWrite = Events(server[c].id, ok)]
    BY <1>6 DEF ServerFetch
  <2>4. Events(server[c].id, ok) \in Seq(Unit)
    BY <2>1, EventsType
  <2>5. /\ server' \in [Conns -> Server]
        /\ \A d \in Conns : server'[d].pc \in {"lock", "fetch"} => server'[d].id # 0
    BY <1>0, <2>3, <2>4 DEF Server
  <2> QED BY <1>6, <2>2, <2>5 DEF ServerFetch
<1>7. CASE ServerWrite(c)
  <2>1. server[c].toWrite \in Seq(Unit) /\ server[c].toWrite # <<>>
    BY <1>0, <1>7 DEF ServerWrite, Server
  <2>2. /\ Tail(server[c].toWrite) \in Seq(Unit)
        /\ Append(down[c], Head(server[c].toWrite)) \in Seq(Unit)
    BY <1>0, <2>1, Slices
  <2>3. /\ server' \in [Conns -> Server]
        /\ \A d \in Conns : server'[d].pc \in {"lock", "fetch"} => server'[d].id # 0
    <3>1. PICK rest \in {Tail(server[c].toWrite), <<>>} :
             server' = [server EXCEPT ![c] = [server[c] EXCEPT !.toWrite = rest]]
      BY <1>7 DEF ServerWrite
    <3>2. rest \in Seq(Unit)
      BY <1>b, <2>2, <3>1
    <3>3. /\ [server[c] EXCEPT !.toWrite = rest] \in Server
          /\ [server[c] EXCEPT !.toWrite = rest].pc = "write"
      BY <1>0, <1>7, <3>2 DEF Server, ServerWrite
    <3> QED BY <3>1, <3>3, ServerPut
  <2>4. down' \in [Conns -> Seq(Unit)]
    BY <1>7, <2>2 DEF ServerWrite
  <2> QED BY <1>7, <2>3, <2>4 DEF ServerWrite
<1>8. CASE ServerUnlock(c)
  <2>1. Tail(mutex) \in Seq(Conns)
    BY <1>8, Slices DEF ServerUnlock
  <2>2. [server[c] EXCEPT !.pc = "parse"] \in Server
    BY <1>0 DEF Server
  <2>3. /\ server' \in [Conns -> Server]
        /\ \A d \in Conns : server'[d].pc \in {"lock", "fetch"} => server'[d].id # 0
    BY <1>8, <2>2, ServerPut DEF ServerUnlock, Server
  <2> QED BY <1>8, <2>1, <2>3 DEF ServerUnlock
<1> QED
  BY <1>1, <1>2, <1>3, <1>4, <1>5, <1>6, <1>7, <1>8 DEF ServerTask

\* netproc dies: every task of it is gone, and nothing waits.
LEMMA DeathTypes == TypeOK /\ NetprocDies => TypeOK'
<1> SUFFICES ASSUME TypeOK, NetprocDies PROVE TypeOK'
  OBVIOUS
<1>1. <<>> \in Seq(Unit) /\ <<>> \in Seq(Conns)
  OBVIOUS
<1>2. [pc |-> "gone", buf |-> <<>>, id |-> 0, toWrite |-> <<>>] \in Server
  BY <1>1 DEF Server
<1>3. /\ server' \in [Conns -> Server]
      /\ \A c \in Conns : server'[c].pc = "gone"
  BY <1>2 DEF NetprocDies
<1>4. up' \in [Conns -> Seq(Unit)] /\ mutex' \in Seq(Conns)
  BY <1>1 DEF NetprocDies
<1> QED BY <1>3, <1>4 DEF NetprocDies, TypeOK

-------------------------------------------------------------------------------

\* What the queue of the mutex says of the tasks of netproc: those that wait
\* for the network client or use it stand in it once, who uses it in front.
MutexInv ==
    /\ \A a, b \in DOMAIN mutex : mutex[a] = mutex[b] => a = b
    /\ \A c \in Conns :
           c \in ToSet(mutex) <=> server[c].pc \in {"lock", "fetch", "write"}
    /\ \A c \in Conns : server[c].pc \in {"fetch", "write"} => Head(mutex) = c

\* Taking the head of a sequence without repetition.
LEMMA TailSet ==
    ASSUME NEW T, NEW s \in Seq(T), s # <<>>,
           \A a, b \in DOMAIN s : s[a] = s[b] => a = b
    PROVE  /\ ToSet(Tail(s)) = ToSet(s) \ {Head(s)}
           /\ \A a, b \in DOMAIN Tail(s) : Tail(s)[a] = Tail(s)[b] => a = b
<1>1. /\ Len(s) \in Nat /\ Len(s) > 0 /\ DOMAIN s = 1..Len(s)
      /\ DOMAIN Tail(s) = 1..(Len(s) - 1)
      /\ \A i \in 1..(Len(s) - 1) : Tail(s)[i] = s[i + 1]
      /\ Head(s) = s[1]
  OBVIOUS
<1>2. ASSUME NEW x PROVE x \in ToSet(Tail(s)) <=> x \in ToSet(s) /\ x # Head(s)
  <2>1. ASSUME x \in ToSet(Tail(s)) PROVE x \in ToSet(s) /\ x # Head(s)
    <3>1. PICK i \in 1..(Len(s) - 1) : x = s[i + 1]
      BY <1>1, <2>1 DEF ToSet
    <3>2. i + 1 \in DOMAIN s /\ 1 \in DOMAIN s /\ i + 1 # 1
      BY <1>1
    <3> QED BY <1>1, <3>1, <3>2 DEF ToSet
  <2>2. ASSUME x \in ToSet(s), x # Head(s) PROVE x \in ToSet(Tail(s))
    <3>1. PICK j \in 1..Len(s) : x = s[j]
      BY <1>1, <2>2 DEF ToSet
    <3>2. j - 1 \in 1..(Len(s) - 1) /\ (j - 1) + 1 = j
      BY <1>1, <2>2, <3>1
    <3>3. Tail(s)[j - 1] = x
      BY <1>1, <3>1, <3>2
    <3> QED BY <1>1, <3>2, <3>3 DEF ToSet
  <2> QED BY <2>1, <2>2
<1>3. ASSUME NEW a \in DOMAIN Tail(s), NEW b \in DOMAIN Tail(s), Tail(s)[a] = Tail(s)[b]
      PROVE  a = b
  <2>1. a + 1 \in DOMAIN s /\ b + 1 \in DOMAIN s /\ s[a + 1] = s[b + 1]
    BY <1>1, <1>3
  <2>2. a + 1 = b + 1
    BY <2>1
  <2> QED BY <1>1, <2>2
<1> QED BY <1>2, <1>3

\* The head of a sequence is one of its elements, and stays when it grows.
LEMMA HeadIn ==
    ASSUME NEW T, NEW s \in Seq(T), s # <<>>, NEW e \in T
    PROVE  Head(s) \in ToSet(s) /\ Head(Append(s, e)) = Head(s)
<1>1. 1 \in DOMAIN s /\ Head(s) = s[1]
  OBVIOUS
<1>2. Head(Append(s, e)) = s[1]
  OBVIOUS
<1> QED BY <1>1, <1>2 DEF ToSet

\* Nothing is in the empty sequence.
LEMMA EmptySet == ToSet(<<>>) = {}
BY DEF ToSet

\* A step that leaves the queue and the positions of the tasks in it alone.
LEMMA MutexKept ==
    ASSUME MutexInv, mutex' = mutex,
           \A c \in Conns : server'[c].pc # server[c].pc =>
               /\ server[c].pc \in {"read", "parse"}
               /\ server'[c].pc \in {"read", "parse", "gone"}
    PROVE  MutexInv'
BY DEF MutexInv

\* Every step keeps what the queue of the mutex says.
LEMMA MutexStep ==
    ASSUME TypeOK, MutexInv, NEW c \in Conns, ServerTask(c)
    PROVE  MutexInv'
<1>0. server \in [Conns -> Server] /\ mutex \in Seq(Conns)
  BY DEF TypeOK
<1>1. CASE ServerRead(c) \/ ServerReadsEnd(c) \/ ServerReadFails(c)
  <2>1. /\ mutex' = mutex
        /\ \A d \in Conns : server'[d].pc # server[d].pc =>
               /\ server[d].pc \in {"read", "parse"}
               /\ server'[d].pc \in {"read", "parse", "gone"}
    <3>1. /\ mutex' = mutex /\ server[c].pc = "read"
          /\ \E pc \in {"parse", "gone"} : \E buf :
                server' = [server EXCEPT ![c] = [server[c] EXCEPT !.pc = pc, !.buf = buf]]
      <4>1. CASE ServerRead(c)
        <5>1. PICK n \in 1..Len(up[c]) :
                 server' = [server EXCEPT ![c].buf = @ \o SubSeq(up[c], 1, n),
                                          ![c].pc = "parse"]
          BY <4>1 DEF ServerRead
        <5>2. server' = [server EXCEPT ![c] =
                 [server[c] EXCEPT !.pc = "parse", !.buf = server[c].buf \o SubSeq(up[c], 1, n)]]
          BY <1>0, <5>1 DEF Server
        <5> QED BY <4>1, <5>2 DEF ServerRead
      <4>2. CASE ServerReadsEnd(c)
        <5>1. PICK pc \in {"parse", "gone"} : server' = [server EXCEPT ![c].pc = pc]
          BY <4>2 DEF ServerReadsEnd
        <5>2. server' = [server EXCEPT ![c] =
                 [server[c] EXCEPT !.pc = pc, !.buf = server[c].buf]]
          BY <1>0, <5>1 DEF Server
        <5> QED BY <4>2, <5>2 DEF ServerReadsEnd
      <4>3. CASE ServerReadFails(c)
        <5>1. server' = [server EXCEPT ![c] =
                 [server[c] EXCEPT !.pc = "gone", !.buf = server[c].buf]]
          BY <1>0, <4>3 DEF ServerReadFails, Server
        <5> QED BY <4>3, <5>1 DEF ServerReadFails
      <4> QED BY <1>1, <4>1, <4>2, <4>3
    <3> QED BY <1>0, <3>1 DEF Server
  <2> QED BY <2>1, MutexKept
<1>2. CASE ServerParse(c) /\ ~HasPayload(server[c].buf)
  <2>1. /\ mutex' = mutex
        /\ \A d \in Conns : server'[d].pc # server[d].pc =>
               /\ server[d].pc \in {"read", "parse"}
               /\ server'[d].pc \in {"read", "parse", "gone"}
    BY <1>0, <1>2 DEF ServerParse, Server
  <2> QED BY <2>1, MutexKept
<1>3. CASE ServerParse(c) /\ HasPayload(server[c].buf)
  <2>1. /\ mutex' = Append(mutex, c) /\ server[c].pc = "parse"
        /\ \A d \in Conns : server'[d].pc = IF d = c THEN "lock" ELSE server[d].pc
    BY <1>0, <1>3 DEF ServerParse, Server
  <2>2. c \notin ToSet(mutex)
    BY <2>1 DEF MutexInv
  <2>3. /\ ToSet(mutex') = ToSet(mutex) \cup {c}
        /\ \A a, b \in DOMAIN mutex' : mutex'[a] = mutex'[b] => a = b
    BY <1>0, <2>1, <2>2, AppendSet DEF MutexInv
  <2>4. ASSUME NEW d \in Conns, server'[d].pc \in {"fetch", "write"}
        PROVE  Head(mutex') = d
    <3>1. server[d].pc \in {"fetch", "write"}
      BY <2>1, <2>4
    <3>2. d \in ToSet(mutex) /\ Head(mutex) = d
      BY <3>1 DEF MutexInv
    <3>3. mutex # <<>>
      BY <3>2, EmptySet
    <3> QED BY <1>0, <2>1, <3>2, <3>3, HeadIn
  <2> QED BY <2>1, <2>3, <2>4 DEF MutexInv
<1>4. CASE ServerLock(c)
  <2>1. /\ mutex' = mutex /\ server[c].pc = "lock" /\ Head(mutex) = c
        /\ \A d \in Conns : server'[d].pc = IF d = c THEN "fetch" ELSE server[d].pc
    BY <1>0, <1>4 DEF ServerLock, Server
  <2> QED BY <2>1 DEF MutexInv
<1>5. CASE ServerFetch(c)
  <2>1. /\ mutex' = mutex /\ server[c].pc = "fetch"
        /\ \A d \in Conns : server'[d].pc = IF d = c THEN "write" ELSE server[d].pc
    BY <1>0, <1>5 DEF ServerFetch, Server
  <2> QED BY <2>1 DEF MutexInv
<1>6. CASE ServerWrite(c)
  <2>1. mutex' = mutex /\ \A d \in Conns : server'[d].pc = server[d].pc
    BY <1>0, <1>6 DEF ServerWrite, Server
  <2> QED BY <2>1 DEF MutexInv
<1>7. CASE ServerUnlock(c)
  <2>1. /\ mutex' = Tail(mutex) /\ server[c].pc = "write"
        /\ \A d \in Conns : server'[d].pc = IF d = c THEN "parse" ELSE server[d].pc
    BY <1>0, <1>7 DEF ServerUnlock, Server
  <2>2. c \in ToSet(mutex) /\ Head(mutex) = c
    BY <2>1 DEF MutexInv
  <2>3. mutex # <<>>
    BY <2>2, EmptySet
  <2>4. /\ ToSet(mutex') = ToSet(mutex) \ {c}
        /\ \A a, b \in DOMAIN mutex' : mutex'[a] = mutex'[b] => a = b
    BY <1>0, <2>1, <2>2, <2>3, TailSet DEF MutexInv
  <2>5. \A d \in Conns : server'[d].pc \notin {"fetch", "write"}
    BY <2>1, <2>2 DEF MutexInv
  <2> QED BY <2>1, <2>4, <2>5 DEF MutexInv
<1> QED
  BY <1>1, <1>2, <1>3, <1>4, <1>5, <1>6, <1>7 DEF ServerTask

\* The invariant of the induction: that the queue of the mutex is not empty
\* when a task gives it up, so that its tail is a queue, is part of it.
Inv == TypeOK /\ MutexInv

\* A task that writes an answer has the network client, so the queue is not empty.
LEMMA WriterHolds ==
    ASSUME MutexInv, NEW c \in Conns, server[c].pc = "write"
    PROVE  mutex # <<>>
BY EmptySet DEF MutexInv

\* The types and the queue of the mutex, by induction over the steps.
LEMMA NetProcessInvariant == Spec => []Inv
<1>1. Init => Inv
  BY InitTypes, EmptySet DEF Inv, Init, MutexInv
<1>2. Inv /\ [Next]_vars => Inv'
  <2> SUFFICES ASSUME Inv, [Next]_vars PROVE Inv'
    OBVIOUS
  <2> USE DEF Inv
  <2>1. CASE UNCHANGED vars
    BY <2>1 DEF vars, TypeOK, MutexInv
  <2>2. CASE NetprocDies
    <3>1. mutex' = <<>> /\ \A c \in Conns : server'[c].pc = "gone"
      BY <2>2 DEF NetprocDies
    <3>2. MutexInv'
      BY <3>1, EmptySet DEF MutexInv
    <3> QED BY <2>2, <3>2, DeathTypes
  <2>3. ASSUME NEW c \in Conns,
               Fetch(c) \/ Caller(c) \/ WriterTask(c) \/ ReaderTask(c) \/ ClientEnds(c)
        PROVE  Inv'
    <3>1. UNCHANGED <<server, mutex>>
      BY <2>3 DEF Fetch, Caller, Receive, ReceiveFails, WriterTask, TakeFrame,
         WriteUp, WriterFails, ReaderTask, ReadDown, PassOn, ReaderEnds, ClientEnds
    <3>2. MutexInv'
      BY <3>1 DEF MutexInv
    <3> QED BY <2>3, <3>2, ClientTypes
  <2>4. ASSUME NEW c \in Conns, ServerTask(c) PROVE Inv'
    <3>1. server[c].pc = "write" => mutex # <<>>
      BY WriterHolds
    <3> QED BY <2>4, <3>1, ServerTypes, MutexStep
  <2> QED BY <2>1, <2>2, <2>3, <2>4 DEF Next
<1> QED BY <1>1, <1>2, PTL DEF Spec

\* Every variable keeps its type, and a task that holds or awaits the network
\* client does so for a request of its client.
THEOREM NetProcessTypes == Spec => []TypeOK
<1>1. Inv => TypeOK
  BY DEF Inv
<1> QED BY <1>1, NetProcessInvariant, PTL

\* However many connections there are, one task at a time uses the network
\* client (the mutex of handle_connection).
THEOREM OneTaskFetches == Spec => []OneNetworkUser
<1>1. Inv => OneNetworkUser
  <2> SUFFICES ASSUME Inv PROVE OneNetworkUser
    OBVIOUS
  <2>1. IsInjective(mutex)
    BY DEF Inv, MutexInv, IsInjective
  <2>2. ASSUME NEW c \in Conns, server[c].pc \in {"fetch", "write"}
        PROVE  mutex # <<>> /\ Head(mutex) = c
    BY <2>2, EmptySet DEF Inv, MutexInv
  <2>3. ASSUME NEW c \in Conns, Contains(mutex, c)
        PROVE  server[c].pc \in {"lock", "fetch", "write"}
    <3>1. mutex \in Seq(Conns)
      BY DEF Inv, TypeOK
    <3>2. c \in ToSet(mutex)
      BY <2>3, <3>1 DEF Contains, ToSet
    <3> QED BY <3>2 DEF Inv, MutexInv
  <2> QED BY <2>1, <2>2, <2>3 DEF OneNetworkUser
<1> QED BY <1>1, NetProcessInvariant, PTL

HIDE NetProcessAssumption

\* Concatenation is associative, as a fact to instantiate.
Regroups(T) == \A a, b, c \in Seq(T) : (a \o b) \o c = a \o (b \o c)

\* Concatenation may be regrouped.
LEMMA Regroup == ASSUME NEW T PROVE Regroups(T)
BY ConcatAssociative DEF Regroups

\* What a read takes from the wire and puts into the buffer is what it was.
LEMMA ReadWhole ==
    ASSUME NEW T, NEW s \in Seq(T), NEW t \in Seq(T), NEW n \in 1..Len(t)
    PROVE  (s \o SubSeq(t, 1, n)) \o SubSeq(t, n + 1, Len(t)) = s \o t
<1> DEFINE p == SubSeq(t, 1, n)
           q == SubSeq(t, n + 1, Len(t))
<1>1. p \in Seq(T) /\ q \in Seq(T)
  BY Slices
<1>2. p \o q = t
  <2>1. Len(t) \in Nat /\ 1 \in 1..(Len(t) + 1) /\ n \in (1 - 1)..Len(t) /\ Len(t) \in n..Len(t)
    OBVIOUS
  <2>2. SubSeq(t, 1, n) \o SubSeq(t, n + 1, Len(t)) = SubSeq(t, 1, Len(t))
    BY <2>1, ConcatAdjacentSubSeq
  <2> QED BY <2>2, SubSeqFull
<1> HIDE DEF p, q
<1>3. Regroups(T)
  BY Regroup, Zenon
<1>4. (s \o p) \o q = s \o (p \o q)
  BY <1>1, <1>3, Zenon DEF Regroups
<1> QED BY <1>2, <1>4, Zenon DEF p, q

\* A unit that moves from what is to be written to the wire.
LEMMA PutWhole ==
    ASSUME NEW s \in Seq(Unit), NEW t \in Seq(Unit), NEW u \in Seq(Unit), u # <<>>
    PROVE  (s \o Append(t, Head(u))) \o Tail(u) = (s \o t) \o u
<1> DEFINE h == <<Head(u)>>
           v == Tail(u)
<1>1. Head(u) \in Unit /\ v \in Seq(Unit) /\ h \in Seq(Unit) /\ s \o t \in Seq(Unit)
  BY Slices
<1>2. u = h \o v
  <2>1. Len(u) \in Nat /\ 1 \in 1..Len(u) /\ Len(u) \in 1..Len(u)
    OBVIOUS
  <2>2. SubSeq(u, 1, Len(u)) = <<u[1]>> \o SubSeq(u, 1 + 1, Len(u))
    BY <2>1, SubSeqRecursiveFirst
  <2>3. SubSeq(u, 1, Len(u)) = u /\ Tail(u) = SubSeq(u, 2, Len(u)) /\ Head(u) = u[1] /\ 1 + 1 = 2
    BY SubSeqFull, TailIsSubSeq
  <2> QED BY <2>2, <2>3
<1>3. Append(t, Head(u)) = t \o h
  BY <1>1, AppendIsConcat
<1> HIDE DEF h, v
<1>4. Regroups(Unit)
  BY Regroup, Zenon
<1>5. s \o (t \o h) = (s \o t) \o h
  BY <1>1, <1>4, Zenon DEF Regroups
<1>6. ((s \o t) \o h) \o v = (s \o t) \o (h \o v)
  BY <1>1, <1>4, Zenon DEF Regroups
<1> QED BY <1>2, <1>3, <1>5, <1>6, Zenon DEF v

\* Without its first two elements a sequence is what follows them.
LEMMA DropTwo ==
    ASSUME NEW T, NEW a \in Seq(T), NEW x \in Seq(T), Len(a) = 2
    PROVE  /\ Len(a \o x) >= 2 /\ (a \o x)[1] = a[1]
           /\ SubSeq(a \o x, 3, Len(a \o x)) = x
<1> DEFINE w == a \o x
<1>1. /\ w \in Seq(T)
      /\ Len(w) = Len(a) + Len(x)
      /\ \A i \in 1..Len(a) : w[i] = a[i]
      /\ \A i \in 1..(Len(a) + Len(x)) : i > Len(a) => w[i] = x[i - Len(a)]
  BY ConcatAt, Zenon
<1>2. Len(x) \in Nat
  OBVIOUS
<1> HIDE DEF w
<1>3. ASSUME NEW i \in 1..Len(x) PROVE w[3 + i - 1] = x[i]
  <2>1. i + 2 \in 1..(Len(a) + Len(x)) /\ i + 2 > Len(a) /\ (i + 2) - Len(a) = i
        /\ 3 + i - 1 = i + 2
    BY <1>2
  <2> QED BY <1>1, <2>1
<1>4. \A i \in 3..Len(w) : w[i] \in T
  BY <1>1, ElementOfSeq
<1>5. /\ SubSeq(w, 3, Len(w)) \in Seq(T)
      /\ Len(SubSeq(w, 3, Len(w))) = Len(x)
      /\ \A i \in 1..Len(x) : SubSeq(w, 3, Len(w))[i] = w[3 + i - 1]
  <2>1. 3 \in Int /\ Len(w) \in Int /\ (IF 3 <= Len(w) THEN Len(w) - 3 + 1 ELSE 0) = Len(x)
        /\ Len(w) - 3 + 1 = Len(x)
    BY <1>1, <1>2
  <2> QED BY <1>4, <2>1, SubSeqProperties
<1>6. SubSeq(w, 3, Len(w)) = x
  <2>1. \A i \in 1..Len(x) : SubSeq(w, 3, Len(w))[i] = x[i]
    BY <1>3, <1>5
  <2> HIDE DEF w
  <2> QED BY <1>5, <2>1, SeqEqual
<1>7. Len(w) >= 2 /\ w[1] = a[1]
  BY <1>1, <1>2
<1> QED BY <1>6, <1>7 DEF w

\* A frame taken from the front of a buffer is taken from the front of all.
LEMMA TakeWhole ==
    ASSUME NEW s \in Seq(Unit), NEW t \in Seq(Unit), NEW u \in Seq(Unit), Len(s) >= 2
    PROVE  LET w == (s \o t) \o u
           IN  /\ Len(w) >= 2 /\ w[1] = s[1]
               /\ (SubSeq(s, 3, Len(s)) \o t) \o u = SubSeq(w, 3, Len(w))
<1> DEFINE a == SubSeq(s, 1, 2)
           v == SubSeq(s, 3, Len(s))
           y == v \o t
           x == y \o u
<1>1. /\ Len(s) \in Nat /\ 1 \in 1..(Len(s) + 1) /\ 2 \in (1 - 1)..Len(s)
      /\ Len(s) \in 2..Len(s) /\ 2 \in 1..Len(s) /\ 2 + 1 = 3 /\ 1 \in 1..Len(s)
  OBVIOUS
<1>2. a \in Seq(Unit) /\ v \in Seq(Unit)
  BY <1>1, Slices
<1>3. Len(a) = 2 /\ a[1] = s[1]
  BY <1>1
<1>4. s = a \o v
  <2>1. SubSeq(s, 1, 2) \o SubSeq(s, 2 + 1, Len(s)) = SubSeq(s, 1, Len(s))
    BY <1>1, ConcatAdjacentSubSeq
  <2> QED BY <1>1, <2>1, SubSeqFull
<1> HIDE DEF a, v
<1>y. y \in Seq(Unit)
  BY <1>2, Slices
<1>5. x \in Seq(Unit)
  BY <1>y, Slices
<1>6. Regroups(Unit)
  BY Regroup, Zenon
<1> HIDE DEF x, y
<1>a. \A q, r \in Seq(Unit) : (a \o q) \o r = a \o (q \o r)
  BY <1>2, <1>6, Zenon DEF Regroups
<1>7. (a \o v) \o t = a \o y
  BY <1>2, <1>a, Zenon DEF y
<1>8. (a \o y) \o u = a \o x
  BY <1>y, <1>a, Zenon DEF x
<1>9. (s \o t) \o u = a \o x
  BY <1>4, <1>7, <1>8, Zenon
<1>10. /\ Len(a \o x) >= 2 /\ (a \o x)[1] = a[1]
       /\ x = SubSeq(a \o x, 3, Len(a \o x))
  BY <1>2, <1>3, <1>5, DropTwo
<1> QED BY <1>3, <1>9, <1>10, Zenon DEF x, y, v

\* Three parts are empty together when each is.
LEMMA NoneOfThree ==
    ASSUME NEW T, NEW s \in Seq(T), NEW t \in Seq(T), NEW u \in Seq(T)
    PROVE  (s \o t) \o u = <<>> <=> s = <<>> /\ t = <<>> /\ u = <<>>
<1>1. s \o t \in Seq(T)
  BY Slices
<1> QED BY <1>1, ConcatEqualIffEmpty

-------------------------------------------------------------------------------
(* What a connection carries: the invariant behind FetchIsWhole, of one       *)
(* connection at a time.  k is its client, u and d the units on the way to    *)
(* netproc and back, s its task in netproc, f the requests fetched for it and *)
(* r what its last fetch returned.                                            *)

LastId(k) == k.next - 1

Ask(k) == [kind |-> "fetch", id |-> LastId(k)]

\* What the writer task and the wire still hold of a request, and the reader
\* task and the wire of an answer.
Upward(k, u, s) == (s.buf \o u) \o k.writing
Downward(k, d, s) == (k.inbuf \o d) \o s.toWrite

Begins(a, b) == Len(a) <= Len(b) /\ \A i \in 1..Len(a) : a[i] = b[i]

\* The request of a connection: nothing of it is under way ...
Rest(k, u, s) ==
    /\ s.pc \in {"read", "parse", "write"}
    /\ k.out = <<>> /\ Upward(k, u, s) = <<>>

\* ... or it is on its way to netproc, whole ...
Asking(k, u, s, f) ==
    /\ s.pc \in {"read", "parse", "write"}
    /\ LastId(k) \notin ToSet(f)
    /\ \/ k.out = <<Ask(k)>> /\ Upward(k, u, s) = <<>>
       \/ k.out = <<>> /\ Upward(k, u, s) = Encode(Ask(k))

\* ... or netproc has it.
Serving(k, u, s, f) ==
    /\ s.pc \in {"lock", "fetch"} /\ s.id = LastId(k)
    /\ LastId(k) \notin ToSet(f)
    /\ k.out = <<>> /\ Upward(k, u, s) = <<>>

ServerInv(k, u, s, f) ==
    /\ s.pc # "write" => s.toWrite = <<>>
    /\ s.pc # "gone" =>
           /\ k.writer /\ k.reader
           /\ Rest(k, u, s) \/ Asking(k, u, s, f) \/ Serving(k, u, s, f)

\* The stages of an answer: what fetch has of it, what its channel holds and
\* what is still to arrive.
Stage(body, inq, ahead) == [body |-> body, inq |-> inq, ahead |-> ahead]

Event(kind, id) == [kind |-> kind, id |-> id]

Stages(id) ==
    LET body == Event("body", id)
        complete == Event("complete", id)
        failed == Event("failed", id)
    IN  { Stage(<<>>, <<>>, Events(id, TRUE)),
          Stage(<<>>, <<body>>, Encode(complete)),
          Stage(<<>>, <<body, complete>>, <<>>),
          Stage(<<>>, <<>>, Events(id, FALSE)),
          Stage(<<>>, <<failed>>, <<>>),
          Stage(<<id>>, <<>>, Encode(complete)),
          Stage(<<id>>, <<complete>>, <<>>) }

\* Nothing comes any more: the reader task has ended.
Deaf(k, s) == s.pc = "gone" /\ k.inq = <<>> /\ ~k.reader

\* Nothing of an answer is there.
Quiet(k, u, d, s, f) ==
    /\ k.inq = <<>> /\ Downward(k, d, s) = <<>>
    /\ k.calling => k.body = <<>>
    /\ s.pc # "gone" =>
           IF k.calling THEN Asking(k, u, s, f) \/ Serving(k, u, s, f)
           ELSE Rest(k, u, s)

\* The answer is at one of its stages; if netproc has died, its end may miss.
Answered(k, u, d, s, f) ==
    /\ k.calling /\ LastId(k) \in ToSet(f)
    /\ s.pc # "gone" => Rest(k, u, s)
    /\ \E g \in Stages(LastId(k)) :
           /\ k.body = g.body /\ k.inq = g.inq
           /\ IF s.pc = "gone" THEN Begins(Downward(k, d, s), g.ahead)
              ELSE Downward(k, d, s) = g.ahead

ClientInv(k, u, d, s, f) ==
    k.alive => Deaf(k, s) \/ Quiet(k, u, d, s, f) \/ Answered(k, u, d, s, f)

\* No request was fetched twice, and none that was not made.
FetchedInv(k, f) ==
    /\ \A a, b \in DOMAIN f : f[a] = f[b] => a = b
    /\ \A a \in DOMAIN f : f[a] <= LastId(k)

ResultInv(f, r) == r.outcome = "ok" => r.body = <<r.id>> /\ r.id \in ToSet(f)

ConnInv(k, u, d, s, f, r) ==
    /\ ServerInv(k, u, s, f)
    /\ ClientInv(k, u, d, s, f)
    /\ FetchedInv(k, f)
    /\ ResultInv(f, r)

Conn(c) == ConnInv(client[c], up[c], down[c], server[c], fetched[c], result[c])

WireInv == \A c \in Conns : Conn(c)

\* The frame at the front of what is written, and the rest.
LEMMA EncodeFirst ==
    ASSUME NEW f
    PROVE  Payload(Encode(f)) = f /\ Advance(Encode(f)) = <<>>
<1>1. Len(Encode(f)) = 2 /\ Encode(f)[1].frame = f
  BY DEF Encode
<1>2. SubSeq(Encode(f), 3, 2) = <<>>
  BY SubSeqEmpty
<1> QED BY <1>1, <1>2 DEF Payload, Advance

\* The first frame of an answer, and what follows it.
LEMMA EventsFirst ==
    ASSUME NEW id
    PROVE  LET body == Event("body", id)
               complete == Event("complete", id)
               failed == Event("failed", id)
           IN  /\ Payload(Events(id, TRUE)) = body
               /\ Advance(Events(id, TRUE)) = Encode(complete)
               /\ Payload(Events(id, FALSE)) = failed
               /\ Advance(Events(id, FALSE)) = <<>>
<1> DEFINE body == Event("body", id)
           complete == Event("complete", id)
           T == {[part |-> p, frame |-> f] : p \in {"head", "tail"}, f \in {body, complete}}
           x == Encode(body)
           y == Encode(complete)
<1>1. /\ x \in Seq(T) /\ Len(x) = 2 /\ x[1].frame = body
      /\ y \in Seq(T)
  <2> DEFINE a == [part |-> "head", frame |-> body]
             b == [part |-> "tail", frame |-> body]
             p == [part |-> "head", frame |-> complete]
             q == [part |-> "tail", frame |-> complete]
  <2>1. a \in T /\ b \in T /\ p \in T /\ q \in T /\ a.frame = body
    OBVIOUS
  <2>2. x = <<a, b>> /\ y = <<p, q>>
    BY DEF Encode
  <2>3. ASSUME NEW S, NEW e \in S, NEW f \in S
        PROVE  <<e, f>> \in Seq(S) /\ Len(<<e, f>>) = 2 /\ <<e, f>>[1] = e
    OBVIOUS
  <2> HIDE DEF a, b, p, q, T, x, y, body, complete
  <2> QED BY <2>1, <2>2, <2>3
<1>2. Events(id, TRUE) = x \o y
  BY DEF Events, Event
<1> HIDE DEF x, y, T
<1>3. (x \o y)[1] = x[1] /\ SubSeq(x \o y, 3, Len(x \o y)) = y
  BY <1>1, DropTwo
<1>4. Events(id, FALSE) = Encode(Event("failed", id))
  BY DEF Events, Event
<1> QED BY <1>1, <1>2, <1>3, <1>4, EncodeFirst DEF Payload, Advance, y

\* The stages of an answer, one by one.
LEMMA StagesAre ==
    ASSUME NEW id, NEW g \in Stages(id)
    PROVE  LET body == Event("body", id)
               complete == Event("complete", id)
               failed == Event("failed", id)
           IN  \/ g = Stage(<<>>, <<>>, Events(id, TRUE)) /\ g.ahead = Events(id, TRUE)
               \/ g = Stage(<<>>, <<body>>, Encode(complete)) /\ g.ahead = Encode(complete)
               \/ g = Stage(<<>>, <<body, complete>>, <<>>) /\ g.ahead = <<>>
               \/ g = Stage(<<>>, <<>>, Events(id, FALSE)) /\ g.ahead = Events(id, FALSE)
               \/ g = Stage(<<>>, <<failed>>, <<>>) /\ g.ahead = <<>>
               \/ g = Stage(<<id>>, <<>>, Encode(complete)) /\ g.ahead = Encode(complete)
               \/ g = Stage(<<id>>, <<complete>>, <<>>) /\ g.ahead = <<>>
<1>1. ASSUME NEW b, NEW q, NEW a PROVE Stage(b, q, a).ahead = a
  BY DEF Stage
<1>2. \/ g = Stage(<<>>, <<>>, Events(id, TRUE))
      \/ g = Stage(<<>>, <<Event("body", id)>>, Encode(Event("complete", id)))
      \/ g = Stage(<<>>, <<Event("body", id), Event("complete", id)>>, <<>>)
      \/ g = Stage(<<>>, <<>>, Events(id, FALSE))
      \/ g = Stage(<<>>, <<Event("failed", id)>>, <<>>)
      \/ g = Stage(<<id>>, <<>>, Encode(Event("complete", id)))
      \/ g = Stage(<<id>>, <<Event("complete", id)>>, <<>>)
  BY DEF Stages
<1>3. \A b, q, a : g = Stage(b, q, a) => g.ahead = a
  BY <1>1
<1> QED BY <1>2, <1>3

\* A whole frame of what is to arrive goes to the next stage.
LEMMA StagePassedOn ==
    ASSUME NEW id, NEW g \in Stages(id), Len(g.ahead) >= 2
    PROVE  Stage(g.body, Append(g.inq, Payload(g.ahead)), Advance(g.ahead)) \in Stages(id)
<1> DEFINE body == Event("body", id)
           complete == Event("complete", id)
           failed == Event("failed", id)
<1>1. /\ Payload(Encode(complete)) = complete /\ Advance(Encode(complete)) = <<>>
      /\ Payload(Events(id, TRUE)) = body
      /\ Advance(Events(id, TRUE)) = Encode(complete)
      /\ Payload(Events(id, FALSE)) = failed
      /\ Advance(Events(id, FALSE)) = <<>>
  BY EncodeFirst, EventsFirst
<1>2. /\ Append(<<>>, body) = <<body>> /\ Append(<<>>, failed) = <<failed>>
      /\ Append(<<>>, complete) = <<complete>>
  OBVIOUS
<1>4. Append(<<body>>, complete) = <<body, complete>>
  <2>1. ASSUME NEW e, NEW f PROVE Append(<<e>>, f) = <<e, f>>
    <3>1. ASSUME NEW S, e \in S, f \in S PROVE Append(<<e>>, f) = <<e, f>>
      <4>1. <<e>> \in Seq(S) /\ Len(<<e>>) = 1 /\ <<e>>[1] = e
        BY <3>1
      <4>2. <<e, f>> \in Seq(S) /\ Len(<<e, f>>) = 2 /\ <<e, f>>[1] = e /\ <<e, f>>[2] = f
        BY <3>1
      <4> DEFINE s == Append(<<e>>, f)
                 t == <<e, f>>
                 u == <<e>>
      <4>3. s \in Seq(S) /\ Len(s) = 2 /\ s[1] = e /\ s[2] = f
        <5>1. s \in Seq(S) /\ Len(s) = Len(u) + 1
              /\ (\A i \in 1..Len(u) : s[i] = u[i]) /\ s[Len(u) + 1] = f
          BY <3>1, <4>1, AppendProperties
        <5>2. Len(u) = 1 /\ u[1] = e
          BY <4>1
        <5> HIDE DEF s, u
        <5> QED BY <5>1, <5>2
      <4>4. t \in Seq(S) /\ Len(t) = 2 /\ t[1] = e /\ t[2] = f
        BY <4>2
      <4> HIDE DEF s, t
      <4>5. s = t
        <5>1. \A i \in 1..2 : i = 1 \/ i = 2
          OBVIOUS
        <5>2. \A i \in 1..Len(s) : s[i] = t[i]
          BY <4>3, <4>4, <5>1
        <5> QED BY <4>3, <4>4, <5>2, SeqEqual
      <4> QED BY <4>5 DEF s, t
    <3>2. e \in {e, f} /\ f \in {e, f}
      OBVIOUS
    <3> QED BY <3>1, <3>2
  <2> QED BY <2>1
<1>5. Len(<<>>) < 2
  OBVIOUS
<1>6. \/ g = Stage(<<>>, <<>>, Events(id, TRUE))
      \/ g = Stage(<<>>, <<body>>, Encode(complete))
      \/ g = Stage(<<>>, <<>>, Events(id, FALSE))
      \/ g = Stage(<<id>>, <<>>, Encode(complete))
  <2>1. g.ahead # <<>>
    BY <1>5
  <2> QED BY <2>1, StagesAre, Zenon
<1>7. /\ Stage(<<>>, <<body>>, Encode(complete)) \in Stages(id)
      /\ Stage(<<>>, <<body, complete>>, <<>>) \in Stages(id)
      /\ Stage(<<>>, <<failed>>, <<>>) \in Stages(id)
      /\ Stage(<<id>>, <<complete>>, <<>>) \in Stages(id)
  BY DEF Stages
<1> HIDE DEF body, complete, failed
<1>8. CASE g = Stage(<<>>, <<>>, Events(id, TRUE))
  BY <1>1, <1>2, <1>7, <1>8 DEF Stage
<1>9. CASE g = Stage(<<>>, <<body>>, Encode(complete))
  BY <1>1, <1>4, <1>7, <1>9 DEF Stage
<1>10. CASE g = Stage(<<>>, <<>>, Events(id, FALSE))
  BY <1>1, <1>2, <1>7, <1>10 DEF Stage
<1>11. CASE g = Stage(<<id>>, <<>>, Encode(complete))
  BY <1>1, <1>2, <1>7, <1>11 DEF Stage
<1> QED BY <1>6, <1>8, <1>9, <1>10, <1>11

\* What fetch makes of the first event of a stage.
LEMMA StageReceived ==
    ASSUME NEW id, NEW g \in Stages(id), g.inq # <<>>
    PROVE  LET event == Head(g.inq)
           IN  /\ event.id = id
               /\ \/ /\ event.kind = "body"
                     /\ Stage(Append(g.body, id), Tail(g.inq), g.ahead) \in Stages(id)
                  \/ /\ event.kind \in {"complete", "failed"}
                     /\ Tail(g.inq) = <<>> /\ g.ahead = <<>>
                     /\ event.kind = "complete" => g.body = <<id>>
<1> DEFINE body == Event("body", id)
           complete == Event("complete", id)
           failed == Event("failed", id)
<1>1. \/ g = Stage(<<>>, <<body>>, Encode(complete))
      \/ g = Stage(<<>>, <<body, complete>>, <<>>)
      \/ g = Stage(<<>>, <<failed>>, <<>>)
      \/ g = Stage(<<id>>, <<complete>>, <<>>)
  <2>1. ASSUME NEW b, NEW a PROVE Stage(b, <<>>, a).inq = <<>>
    BY DEF Stage
  <2> HIDE DEF body, complete, failed
  <2> QED BY <2>1, StagesAre DEF body, complete, failed
<1>2. /\ Stage(<<id>>, <<>>, Encode(complete)) \in Stages(id)
      /\ Stage(<<id>>, <<complete>>, <<>>) \in Stages(id)
  BY DEF Stages
<1>3. ASSUME NEW e PROVE /\ Head(<<e>>) = e /\ Tail(<<e>>) = <<>>
                         /\ Append(<<>>, e) = <<e>>
  OBVIOUS
<1>4. Head(<<body, complete>>) = body /\ Tail(<<body, complete>>) = <<complete>>
  OBVIOUS
<1>5. /\ body.id = id /\ body.kind = "body"
      /\ complete.id = id /\ complete.kind = "complete"
      /\ failed.id = id /\ failed.kind = "failed"
  BY DEF Event
<1> HIDE DEF body, complete, failed
<1>6. CASE g = Stage(<<>>, <<body>>, Encode(complete))
  BY <1>6, <1>2, <1>3, <1>5 DEF Stage
<1>7. CASE g = Stage(<<>>, <<body, complete>>, <<>>)
  BY <1>7, <1>2, <1>3, <1>4, <1>5 DEF Stage
<1>8. CASE g = Stage(<<>>, <<failed>>, <<>>)
  BY <1>8, <1>3, <1>5 DEF Stage
<1>9. CASE g = Stage(<<id>>, <<complete>>, <<>>)
  BY <1>9, <1>3, <1>5 DEF Stage
<1> QED BY <1>1, <1>6, <1>7, <1>8, <1>9

\* What is ahead in a stage are units.
LEMMA StageType ==
    ASSUME NEW id \in 1..MaxFetches, NEW g \in Stages(id)
    PROVE  g.ahead \in Seq(Unit)
<1>1. Encode(Event("complete", id)) \in Seq(Unit)
  BY EncodeType DEF Frame, Event
<1>2. Events(id, TRUE) \in Seq(Unit) /\ Events(id, FALSE) \in Seq(Unit)
  <2>1. TRUE \in BOOLEAN /\ FALSE \in BOOLEAN
    OBVIOUS
  <2> QED BY <2>1, EventsType, Zenon
<1>3. <<>> \in Seq(Unit)
  OBVIOUS
<1>4. \/ g.ahead = Events(id, TRUE) \/ g.ahead = Events(id, FALSE)
      \/ g.ahead = Encode(Event("complete", id)) \/ g.ahead = <<>>
  BY StagesAre, Zenon
<1> QED BY <1>1, <1>2, <1>3, <1>4

\* The elements of a sequence are of its type.
LEMMA InSet ==
    ASSUME NEW T, NEW s \in Seq(T), NEW x \in ToSet(s)
    PROVE  x \in T
BY DEF ToSet

\* Units that move along the connection, and tasks that go on, change nothing
\* of what the connection carries.
LEMMA WireMoves ==
    ASSUME NEW k, NEW u, NEW d, NEW s, NEW f, NEW r, NEW kk, NEW uu, NEW dd, NEW ss,
           ConnInv(k, u, d, s, f, r),
           kk.next = k.next,
           kk.alive => /\ k.alive /\ kk.calling = k.calling /\ kk.body = k.body
                       /\ kk.inq = k.inq /\ kk.reader = k.reader
                       /\ Downward(kk, dd, ss) = Downward(k, d, s),
           ss.pc # "write" => ss.toWrite = <<>>,
           \/ ss.pc = s.pc
           \/ {s.pc, ss.pc} \subseteq {"read", "parse", "write"}
           \/ {s.pc, ss.pc} \subseteq {"lock", "fetch"},
           s.pc # "gone" => /\ ss.id = s.id /\ kk.writer = k.writer /\ kk.reader = k.reader
                            /\ kk.out = k.out /\ Upward(kk, uu, ss) = Upward(k, u, s)
    PROVE  ConnInv(kk, uu, dd, ss, f, r)
<1>1. LastId(kk) = LastId(k) /\ Ask(kk) = Ask(k)
  BY DEF LastId, Ask
<1>2. ss.pc = "gone" <=> s.pc = "gone"
  OBVIOUS
<1>3. ASSUME s.pc # "gone"
      PROVE  /\ Rest(k, u, s) => Rest(kk, uu, ss)
             /\ Asking(k, u, s, f) => Asking(kk, uu, ss, f)
             /\ Serving(k, u, s, f) => Serving(kk, uu, ss, f)
  BY <1>1, <1>2, <1>3 DEF Rest, Asking, Serving
<1>4. ServerInv(kk, uu, ss, f)
  BY <1>2, <1>3 DEF ServerInv, ConnInv
<1>5. ClientInv(kk, uu, dd, ss, f)
  <2> SUFFICES ASSUME kk.alive PROVE Deaf(kk, ss) \/ Quiet(kk, uu, dd, ss, f) \/ Answered(kk, uu, dd, ss, f)
    BY DEF ClientInv
  <2>1. CASE Deaf(k, s)
    BY <1>2, <2>1 DEF Deaf
  <2>2. CASE Quiet(k, u, d, s, f)
    BY <1>2, <1>3, <2>2 DEF Quiet
  <2>3. CASE Answered(k, u, d, s, f)
    BY <1>1, <1>2, <1>3, <2>3 DEF Answered
  <2> QED BY <2>1, <2>2, <2>3 DEF ConnInv, ClientInv
<1>6. FetchedInv(kk, f) /\ ResultInv(f, r)
  BY <1>1 DEF FetchedInv, ConnInv
<1> QED BY <1>4, <1>5, <1>6 DEF ConnInv

\* The task of netproc has ended, and so has the client.
LEMMA BothEnded ==
    ASSUME NEW k, NEW u, NEW d, NEW s, NEW f, NEW r, NEW uu, NEW ss,
           ConnInv(k, u, d, s, f, r), ~k.alive, ss.pc = "gone", ss.toWrite = <<>>
    PROVE  ConnInv(k, uu, d, ss, f, r)
BY DEF ConnInv, ServerInv, ClientInv

\* What begins a sequence begins it no less when its end is lost.
LEMMA BeginsCut ==
    ASSUME NEW T, NEW a \in Seq(T), NEW b \in Seq(T), NEW w,
           Begins(a \o b, w) \/ a \o b = w, Len(w) \in Nat
    PROVE  Begins(a, w)
<1>1. Len(a) \in Nat /\ Len(b) \in Nat
  OBVIOUS
<1>2. Len(a \o b) = Len(a) + Len(b) /\ \A i \in 1..Len(a) : (a \o b)[i] = a[i]
  BY ConcatAt, Zenon
<1> DEFINE ab == a \o b
<1>3. Len(ab) = Len(a) + Len(b) /\ \A i \in 1..Len(a) : ab[i] = a[i]
  BY <1>2
<1>4. Begins(ab, w) \/ ab = w
  OBVIOUS
<1> HIDE DEF ab
<1>5. Len(a) <= Len(w)
  BY <1>1, <1>3, <1>4 DEF Begins
<1>6. ASSUME NEW i \in 1..Len(a) PROVE a[i] = w[i]
  <2>1. ab[i] = a[i] /\ i \in 1..Len(ab)
    BY <1>1, <1>3
  <2> QED BY <1>4, <2>1 DEF Begins
<1> QED BY <1>5, <1>6 DEF Begins

\* netproc dies: what was still to be written is lost.
LEMMA ServerLost ==
    ASSUME NEW k \in Client, NEW u, NEW d \in Seq(Unit), NEW s \in Server,
           NEW f \in Seq(1..MaxFetches), NEW r, NEW uu, NEW ss,
           ConnInv(k, u, d, s, f, r), ss.pc = "gone", ss.toWrite = <<>>
    PROVE  ConnInv(k, uu, d, ss, f, r)
<1>1. ServerInv(k, uu, ss, f)
  BY DEF ServerInv
<1>2. k.inbuf \in Seq(Unit) /\ s.toWrite \in Seq(Unit) /\ k.inbuf \o d \in Seq(Unit)
  BY Slices DEF Client, Server
<1>3. Downward(k, d, ss) = k.inbuf \o d
  BY <1>2, ConcatEmptySeq DEF Downward
<1>4. ClientInv(k, uu, d, ss, f)
  <2> SUFFICES ASSUME k.alive PROVE Deaf(k, ss) \/ Quiet(k, uu, d, ss, f) \/ Answered(k, uu, d, ss, f)
    BY DEF ClientInv
  <2>1. CASE Deaf(k, s)
    BY <2>1 DEF Deaf
  <2>2. CASE Quiet(k, u, d, s, f)
    <3>1. (k.inbuf \o d) \o s.toWrite = <<>>
      BY <2>2 DEF Quiet, Downward
    <3>2. k.inbuf \o d = <<>>
      BY <1>2, <3>1, ConcatEqualIffEmpty
    <3> QED BY <1>3, <2>2, <3>2 DEF Quiet
  <2>3. CASE Answered(k, u, d, s, f)
    <3>1. PICK g \in Stages(LastId(k)) :
              /\ k.body = g.body /\ k.inq = g.inq
              /\ IF s.pc = "gone" THEN Begins(Downward(k, d, s), g.ahead)
                 ELSE Downward(k, d, s) = g.ahead
      BY <2>3 DEF Answered
    <3>2. LastId(k) \in 1..MaxFetches
      <4>1. LastId(k) \in ToSet(f)
        BY <2>3 DEF Answered
      <4> QED BY <4>1, InSet, Zenon
    <3>3. Len(g.ahead) \in Nat
      BY <3>2, StageType
    <3>4. Begins(k.inbuf \o d, g.ahead)
      BY <1>2, <3>1, <3>3, BeginsCut DEF Downward
    <3> QED BY <1>3, <2>3, <3>1, <3>4 DEF Answered
  <2> QED BY <2>1, <2>2, <2>3 DEF ConnInv, ClientInv
<1> QED BY <1>1, <1>4 DEF ConnInv

USE NetProcessAssumption

\* fetch: the request is given to the writer task.
LEMMA StartKeeps ==
    ASSUME NEW k \in Client, NEW u, NEW d, NEW s, NEW f \in Seq(1..MaxFetches), NEW r, NEW kk,
           ConnInv(k, u, d, s, f, r),
           k.alive, ~k.calling, k.writer,
           kk = [k EXCEPT !.next = @ + 1, !.calling = TRUE, !.body = <<>>,
                          !.out = Append(@, [kind |-> "fetch", id |-> k.next])]
    PROVE  ConnInv(kk, u, d, s, f, r)
<1>1. k.next \in 1..(MaxFetches + 1)
  BY DEF Client
<1>2. /\ kk.next = k.next + 1 /\ kk.calling = TRUE /\ kk.body = <<>>
      /\ kk.out = Append(k.out, [kind |-> "fetch", id |-> k.next])
      /\ kk.alive = k.alive /\ kk.writing = k.writing /\ kk.writer = k.writer
      /\ kk.inbuf = k.inbuf /\ kk.inq = k.inq /\ kk.reader = k.reader
  BY DEF Client
<1>3. /\ LastId(kk) = k.next /\ LastId(k) = k.next - 1
      /\ Ask(kk) = [kind |-> "fetch", id |-> k.next]
  BY <1>1, <1>2 DEF LastId, Ask
<1>4. Upward(kk, u, s) = Upward(k, u, s) /\ Downward(kk, d, s) = Downward(k, d, s)
  BY <1>2 DEF Upward, Downward
<1>5. LastId(kk) \notin ToSet(f) /\ FetchedInv(kk, f)
  <2>1. \A a \in DOMAIN f : f[a] \in Int /\ f[a] <= k.next - 1
    BY <1>3 DEF ConnInv, FetchedInv
  <2>2. \A a \in DOMAIN f : f[a] # k.next /\ f[a] <= k.next
    BY <1>1, <2>1
  <2> QED BY <1>3, <2>2 DEF FetchedInv, ConnInv, ToSet
<1>6. Deaf(k, s) \/ Quiet(k, u, d, s, f)
  BY DEF ConnInv, ClientInv, Answered
<1>7. ASSUME s.pc # "gone" PROVE Asking(kk, u, s, f)
  <2>1. Rest(k, u, s)
    BY <1>6, <1>7 DEF Deaf, Quiet
  <2>2. kk.out = <<Ask(kk)>>
    BY <1>2, <1>3, <2>1 DEF Rest
  <2> QED BY <1>4, <1>5, <2>1, <2>2 DEF Rest, Asking
<1>8. ServerInv(kk, u, s, f)
  BY <1>2, <1>7 DEF ServerInv, ConnInv
<1>9. Deaf(kk, s) \/ Quiet(kk, u, d, s, f)
  BY <1>2, <1>4, <1>6, <1>7 DEF Deaf, Quiet
<1> QED BY <1>5, <1>8, <1>9 DEF ConnInv, ClientInv

\* fetch fails at once: the writer task has ended, as it does when netproc has.
LEMMA StartFails ==
    ASSUME NEW k \in Client, NEW u, NEW d, NEW s, NEW f \in Seq(1..MaxFetches), NEW r,
           NEW kk, NEW rr,
           ConnInv(k, u, d, s, f, r),
           k.alive, ~k.calling, ~k.writer,
           kk = [k EXCEPT !.next = @ + 1], rr.outcome = "error"
    PROVE  ConnInv(kk, u, d, s, f, rr)
<1>1. k.next \in 1..(MaxFetches + 1)
  BY DEF Client
<1>2. /\ kk.next = k.next + 1 /\ kk.calling = k.calling /\ kk.body = k.body
      /\ kk.alive = k.alive /\ kk.inbuf = k.inbuf /\ kk.inq = k.inq /\ kk.reader = k.reader
  BY DEF Client
<1>3. s.pc = "gone" /\ s.toWrite = <<>>
  BY DEF ConnInv, ServerInv
<1>4. FetchedInv(kk, f)
  <2>1. \A a \in DOMAIN f : f[a] \in Int /\ f[a] <= k.next - 1
    BY DEF ConnInv, FetchedInv, LastId
  <2>2. \A a \in DOMAIN f : f[a] <= kk.next - 1
    BY <1>1, <1>2, <2>1
  <2> QED BY <2>2 DEF FetchedInv, ConnInv, LastId
<1>5. Deaf(k, s) \/ Quiet(k, u, d, s, f)
  BY DEF ConnInv, ClientInv, Answered
<1>6. Deaf(kk, s) \/ Quiet(kk, u, d, s, f)
  BY <1>2, <1>3, <1>5 DEF Deaf, Quiet, Downward
<1> QED BY <1>3, <1>4, <1>6 DEF ConnInv, ServerInv, ClientInv, ResultInv

\* The caller and its result when it has taken an event.
IsLast(k, event) == event.id = LastId(k) /\ event.kind \in {"complete", "failed"}

Heard(k) ==
    LET event == Head(k.inq)
    IN  [k EXCEPT !.inq = Tail(@), !.calling = ~IsLast(k, event),
                  !.body = IF event.id = LastId(k) /\ event.kind = "body"
                           THEN Append(@, event.id) ELSE @]

Told(k, r) ==
    LET event == Head(k.inq)
    IN  IF IsLast(k, event)
        THEN [outcome |-> IF event.kind = "complete" THEN "ok" ELSE "error",
              id |-> LastId(k), body |-> k.body]
        ELSE r

\* The caller takes an event: it is of its request, and either the body or the
\* last one.
LEMMA EventKeeps ==
    ASSUME NEW k \in Client, NEW u, NEW d \in Seq(Unit), NEW s \in Server,
           NEW f \in Seq(1..MaxFetches), NEW r,
           ConnInv(k, u, d, s, f, r), k.alive, k.calling, k.inq # <<>>
    PROVE  ConnInv(Heard(k), u, d, s, f, Told(k, r))
<1> DEFINE event == Head(k.inq)
           kk == Heard(k)
           rr == Told(k, r)
<1>1. Answered(k, u, d, s, f)
  BY DEF ConnInv, ClientInv, Deaf, Quiet
<1>2. PICK g \in Stages(LastId(k)) :
          /\ k.body = g.body /\ k.inq = g.inq
          /\ IF s.pc = "gone" THEN Begins(Downward(k, d, s), g.ahead)
             ELSE Downward(k, d, s) = g.ahead
  BY <1>1 DEF Answered
<1>3. /\ event.id = LastId(k)
      /\ \/ /\ event.kind = "body"
            /\ Stage(Append(g.body, LastId(k)), Tail(g.inq), g.ahead) \in Stages(LastId(k))
         \/ /\ event.kind \in {"complete", "failed"}
            /\ Tail(g.inq) = <<>> /\ g.ahead = <<>>
            /\ event.kind = "complete" => g.body = <<LastId(k)>>
  BY <1>2, StageReceived
<1>4. /\ kk.alive = k.alive /\ kk.next = k.next /\ kk.out = k.out /\ kk.writing = k.writing
      /\ kk.writer = k.writer /\ kk.inbuf = k.inbuf /\ kk.reader = k.reader
      /\ kk.inq = Tail(k.inq)
  BY DEF Client, Heard
<1>5. /\ Upward(kk, u, s) = Upward(k, u, s) /\ Downward(kk, d, s) = Downward(k, d, s)
      /\ LastId(kk) = LastId(k) /\ Ask(kk) = Ask(k)
  BY <1>4 DEF Upward, Downward, LastId, Ask
<1>6. /\ Rest(k, u, s) => Rest(kk, u, s)
      /\ Asking(k, u, s, f) => Asking(kk, u, s, f)
      /\ Serving(k, u, s, f) => Serving(kk, u, s, f)
  BY <1>4, <1>5 DEF Rest, Asking, Serving
<1>7. ServerInv(kk, u, s, f) /\ FetchedInv(kk, f)
  BY <1>4, <1>5, <1>6 DEF ConnInv, ServerInv, FetchedInv
<1>8. CASE event.kind = "body"
  <2>1. /\ kk.calling = TRUE /\ kk.body = Append(k.body, LastId(k)) /\ rr = r
    BY <1>3, <1>8 DEF Client, Heard, Told, IsLast
  <2> DEFINE gg == Stage(Append(g.body, LastId(k)), Tail(g.inq), g.ahead)
  <2>2. /\ gg \in Stages(LastId(k))
        /\ gg.body = kk.body /\ gg.inq = kk.inq /\ gg.ahead = g.ahead
    <3>1. gg \in Stages(LastId(k))
      BY <1>3, <1>8
    <3> QED BY <1>2, <1>4, <2>1, <3>1 DEF Stage
  <2> HIDE DEF gg
  <2>3. Answered(kk, u, d, s, f)
    <3>1. IF s.pc = "gone" THEN Begins(Downward(kk, d, s), gg.ahead)
          ELSE Downward(kk, d, s) = gg.ahead
      BY <1>2, <1>5, <2>2
    <3> QED BY <1>1, <1>5, <1>6, <2>1, <2>2, <3>1 DEF Answered
  <2> QED BY <1>7, <2>1, <2>3 DEF ConnInv, ClientInv
<1>9. CASE event.kind \in {"complete", "failed"}
  <2>1. /\ kk.calling = FALSE
        /\ rr = [outcome |-> IF event.kind = "complete" THEN "ok" ELSE "error",
                 id |-> LastId(k), body |-> k.body]
        /\ kk.inq = <<>> /\ g.ahead = <<>>
        /\ event.kind = "complete" => k.body = <<LastId(k)>>
    <3>1. event.kind # "body"
      BY <1>9
    <3>2. /\ Tail(g.inq) = <<>> /\ g.ahead = <<>>
          /\ event.kind = "complete" => g.body = <<LastId(k)>>
      BY <1>3, <3>1
    <3>3. kk.calling = FALSE
          /\ rr = [outcome |-> IF event.kind = "complete" THEN "ok" ELSE "error",
                   id |-> LastId(k), body |-> k.body]
      BY <1>3, <1>9 DEF Client, Heard, Told, IsLast
    <3> QED BY <1>2, <1>4, <3>2, <3>3
  <2>2. Downward(k, d, s) = <<>>
    <3>1. Begins(Downward(k, d, s), <<>>) \/ Downward(k, d, s) = <<>>
      BY <1>2, <2>1
    <3>2. Downward(k, d, s) \in Seq(Unit)
      BY Slices DEF Client, Server, Downward
    <3> DEFINE w == Downward(k, d, s)
    <3>3. w \in Seq(Unit) /\ (Len(w) <= 0 \/ w = <<>>)
      BY <3>1, <3>2 DEF Begins
    <3> HIDE DEF w
    <3>4. w = <<>>
      BY <3>3
    <3> QED BY <3>4 DEF w
  <2>3. Quiet(kk, u, d, s, f)
    BY <1>1, <1>5, <1>6, <2>1, <2>2 DEF Quiet, Answered
  <2>4. ResultInv(f, rr)
    BY <1>1, <2>1 DEF ResultInv, Answered
  <2> QED BY <1>7, <2>3, <2>4 DEF ConnInv, ClientInv
<1> QED BY <1>3, <1>8, <1>9

\* The caller gives up: the reader task has ended, and so nothing comes.
LEMMA GiveUpKeeps ==
    ASSUME NEW k \in Client, NEW u, NEW d, NEW s, NEW f, NEW r, NEW kk, NEW rr,
           ConnInv(k, u, d, s, f, r),
           k.inq = <<>>, ~k.reader,
           kk = [k EXCEPT !.calling = FALSE], rr.outcome = "error"
    PROVE  ConnInv(kk, u, d, s, f, rr)
<1>1. /\ kk.next = k.next /\ kk.inq = k.inq /\ kk.reader = k.reader
  BY DEF Client
<1>2. s.pc = "gone" /\ s.toWrite = <<>>
  BY DEF ConnInv, ServerInv
<1>3. Deaf(kk, s)
  BY <1>1, <1>2 DEF Deaf
<1>4. FetchedInv(kk, f)
  BY <1>1 DEF ConnInv, FetchedInv, LastId
<1> QED BY <1>2, <1>3, <1>4 DEF ConnInv, ServerInv, ClientInv, ResultInv

\* The writer task takes the request.
LEMMA TakeKeeps ==
    ASSUME NEW k \in Client, NEW u \in Seq(Unit), NEW d, NEW s \in Server, NEW f, NEW r, NEW kk,
           ConnInv(k, u, d, s, f, r), s.pc # "gone",
           k.writing = <<>>, k.out # <<>>,
           kk = [k EXCEPT !.out = Tail(@), !.writing = Encode(Head(k.out))]
    PROVE  ConnInv(kk, u, d, s, f, r)
<1>1. /\ kk.alive = k.alive /\ kk.next = k.next /\ kk.calling = k.calling
      /\ kk.body = k.body /\ kk.writer = k.writer /\ kk.inbuf = k.inbuf
      /\ kk.inq = k.inq /\ kk.reader = k.reader
      /\ kk.out = Tail(k.out) /\ kk.writing = Encode(Head(k.out))
  BY DEF Client
<1>2. LastId(kk) = LastId(k) /\ Ask(kk) = Ask(k) /\ Downward(kk, d, s) = Downward(k, d, s)
  BY <1>1 DEF LastId, Ask, Downward
<1>3. Asking(k, u, s, f) /\ k.out = <<Ask(k)>> /\ Upward(k, u, s) = <<>>
  BY DEF ConnInv, ServerInv, Rest, Asking, Serving
<1>4. s.buf = <<>> /\ u = <<>>
  <2>1. s.buf \in Seq(Unit) /\ k.writing \in Seq(Unit)
    BY DEF Server, Client
  <2>2. (s.buf \o u) \o k.writing = <<>>
    BY <1>3 DEF Upward
  <2> QED BY <2>1, <2>2, NoneOfThree
<1>5. kk.out = <<>> /\ kk.writing = Encode(Ask(k))
  <2>1. \A e : Head(<<e>>) = e /\ Tail(<<e>>) = <<>>
    OBVIOUS
  <2> QED BY <1>1, <1>3, <2>1
<1>6. Upward(kk, u, s) = Encode(Ask(k))
  <2>1. \A a, b : Len(<<a, b>>) = 2
    OBVIOUS
  <2>2. (<<>> \o <<>>) \o Encode(Ask(k)) = Encode(Ask(k))
    <3> DEFINE e == Encode(Ask(k))
               T == {[part |-> p, frame |-> Ask(k)] : p \in {"head", "tail"}}
    <3>1. e \in Seq(T)
      <4> DEFINE a == [part |-> "head", frame |-> Ask(k)]
                 b == [part |-> "tail", frame |-> Ask(k)]
      <4>1. a \in T /\ b \in T /\ e = <<a, b>>
        BY DEF Encode
      <4> HIDE DEF a, b, T, e
      <4> QED BY <4>1
    <3> HIDE DEF e, T
    <3>2. <<>> \o <<>> = <<>>
      <4>1. <<>> \in Seq(T)
        OBVIOUS
      <4> QED BY <4>1, ConcatEmptySeq
    <3>3. <<>> \o e = e
      BY <3>1, ConcatEmptySeq
    <3> QED BY <3>2, <3>3 DEF e
  <2> QED BY <1>4, <1>5, <2>2 DEF Upward
<1>7. Asking(kk, u, s, f)
  BY <1>2, <1>3, <1>5, <1>6 DEF Asking
<1>8. ServerInv(kk, u, s, f)
  BY <1>1, <1>7 DEF ConnInv, ServerInv
<1>9. ClientInv(kk, u, d, s, f)
  <2>1. ~Deaf(k, s)
    BY DEF Deaf
  <2>2. Len(<<Ask(k)>>) = 1
    OBVIOUS
  <2>3. ~Rest(k, u, s)
    BY <1>3, <2>2 DEF Rest
  <2>4. ~Answered(k, u, d, s, f)
    BY <2>3 DEF Answered
  <2>5. k.alive => Quiet(k, u, d, s, f)
    BY <2>1, <2>4 DEF ConnInv, ClientInv
  <2>6. k.alive => Quiet(kk, u, d, s, f)
    BY <1>1, <1>2, <1>7, <2>3, <2>5 DEF Quiet
  <2> QED BY <1>1, <2>6 DEF ClientInv
<1> QED BY <1>2, <1>8, <1>9 DEF ConnInv, FetchedInv

\* A buffer without its first frame, two units shorter.
LEMMA AdvanceAt ==
    ASSUME NEW q \in Seq(Unit), Len(q) >= 2
    PROVE  /\ Len(Advance(q)) = Len(q) - 2
           /\ \A i \in 1..(Len(q) - 2) : Advance(q)[i] = q[i + 2]
<1>1. ASSUME NEW n \in Nat, n >= 2
      PROVE  /\ (IF 3 <= n THEN n - 3 + 1 ELSE 0) = n - 2
             /\ n - 3 + 1 = n - 2
             /\ \A i \in 1..(n - 2) : 3 + i - 1 = i + 2
  BY <1>1
<1>2. Len(q) \in Nat /\ Len(q) >= 2 /\ 3 \in Int /\ Len(q) \in Int
  OBVIOUS
<1>3. \A i \in 3..Len(q) : q[i] \in Unit
  <2>1. \A i \in 3..Len(q) : i \in 1..Len(q)
    OBVIOUS
  <2> QED BY <2>1, ElementOfSeq
<1>4. /\ Len(SubSeq(q, 3, Len(q))) = IF 3 <= Len(q) THEN Len(q) - 3 + 1 ELSE 0
      /\ \A i \in 1..(Len(q) - 3 + 1) : SubSeq(q, 3, Len(q))[i] = q[3 + i - 1]
  BY <1>2, <1>3, SubSeqProperties
<1> QED BY <1>1, <1>2, <1>4 DEF Advance

\* The reader task passes a frame on: the answer is a stage further.
LEMMA PassKeeps ==
    ASSUME NEW k \in Client, NEW u, NEW d \in Seq(Unit), NEW s \in Server,
           NEW f \in Seq(1..MaxFetches), NEW r, NEW kk,
           ConnInv(k, u, d, s, f, r), k.alive, k.reader, HasPayload(k.inbuf),
           kk = [k EXCEPT !.inq = Append(@, Payload(k.inbuf)), !.inbuf = Advance(@)]
    PROVE  ConnInv(kk, u, d, s, f, r)
<1>1. /\ kk.alive = k.alive /\ kk.next = k.next /\ kk.calling = k.calling
      /\ kk.body = k.body /\ kk.writer = k.writer /\ kk.reader = k.reader
      /\ kk.out = k.out /\ kk.writing = k.writing
      /\ kk.inq = Append(k.inq, Payload(k.inbuf)) /\ kk.inbuf = Advance(k.inbuf)
  BY DEF Client
<1>2. LastId(kk) = LastId(k) /\ Ask(kk) = Ask(k) /\ Upward(kk, u, s) = Upward(k, u, s)
  BY <1>1 DEF LastId, Ask, Upward
<1> DEFINE w == Downward(k, d, s)
<1>3. /\ Len(w) >= 2 /\ w[1] = k.inbuf[1] /\ w \in Seq(Unit)
      /\ Downward(kk, d, s) = Advance(w)
  <2>1. k.inbuf \in Seq(Unit) /\ s.toWrite \in Seq(Unit) /\ Len(k.inbuf) >= 2
    BY DEF Client, Server, HasPayload
  <2>2. w \in Seq(Unit)
    BY <2>1, Slices DEF Downward
  <2> DEFINE b == k.inbuf
             t == s.toWrite
  <2>3. b \in Seq(Unit) /\ t \in Seq(Unit) /\ Len(b) >= 2
    BY <2>1
  <2>4. w = (b \o d) \o t
    BY DEF Downward
  <2> HIDE DEF b, t, w
  <2>5. /\ Len(w) >= 2 /\ w[1] = b[1]
        /\ (SubSeq(b, 3, Len(b)) \o d) \o t = SubSeq(w, 3, Len(w))
    <3>1. /\ Len((b \o d) \o t) >= 2 /\ ((b \o d) \o t)[1] = b[1]
          /\ (SubSeq(b, 3, Len(b)) \o d) \o t
                = SubSeq((b \o d) \o t, 3, Len((b \o d) \o t))
      BY <2>3, TakeWhole
    <3> QED BY <2>4, <3>1
  <2> QED BY <1>1, <2>2, <2>5 DEF Downward, Advance, b, t
<1>4. Answered(k, u, d, s, f)
  <2>1. w # <<>>
    <3> HIDE DEF w
    <3> QED BY <1>3
  <2> QED BY <2>1 DEF ConnInv, ClientInv, Deaf, Quiet
<1>5. PICK g \in Stages(LastId(k)) :
          /\ k.body = g.body /\ k.inq = g.inq
          /\ IF s.pc = "gone" THEN Begins(w, g.ahead) ELSE w = g.ahead
  BY <1>4 DEF Answered
<1>6. g.ahead \in Seq(Unit)
  <2>1. LastId(k) \in ToSet(f)
    BY <1>4 DEF Answered
  <2>2. LastId(k) \in 1..MaxFetches
    BY <2>1, InSet, Zenon
  <2> QED BY <2>2, StageType
<1> HIDE DEF w
<1>7. Len(g.ahead) >= 2 /\ g.ahead[1] = k.inbuf[1]
  <2>1. CASE s.pc = "gone"
    <3>1. Len(w) <= Len(g.ahead) /\ w[1] = g.ahead[1]
      <4>1. 1 \in 1..Len(w)
        BY <1>3
      <4> QED BY <1>5, <2>1, <4>1 DEF Begins
    <3> QED BY <1>3, <1>6, <3>1
  <2>2. CASE s.pc # "gone"
    BY <1>3, <1>5, <2>2
  <2> QED BY <2>1, <2>2
<1>8. IF s.pc = "gone" THEN Begins(Advance(w), Advance(g.ahead)) ELSE Advance(w) = Advance(g.ahead)
  <2>1. CASE s.pc = "gone"
    <3>2. Len(w) <= Len(g.ahead) /\ \A i \in 1..Len(w) : w[i] = g.ahead[i]
      BY <1>5, <2>1 DEF Begins
    <3>3. Len(w) \in Nat /\ Len(g.ahead) \in Nat
      BY <1>3, <1>6
    <3>4. /\ Len(Advance(w)) = Len(w) - 2 /\ Len(Advance(g.ahead)) = Len(g.ahead) - 2
          /\ \A i \in 1..(Len(w) - 2) : Advance(w)[i] = w[i + 2]
          /\ \A i \in 1..(Len(g.ahead) - 2) : Advance(g.ahead)[i] = g.ahead[i + 2]
      BY <1>3, <1>6, <1>7, AdvanceAt
    <3>5. \A i \in 1..(Len(w) - 2) : Advance(w)[i] = Advance(g.ahead)[i]
      <4> TAKE i \in 1..(Len(w) - 2)
      <4>1. i \in 1..(Len(g.ahead) - 2) /\ i + 2 \in 1..Len(w)
        BY <3>2, <3>3
      <4> QED BY <3>2, <3>4, <4>1
    <3> QED BY <2>1, <3>2, <3>3, <3>4, <3>5 DEF Begins
  <2>2. CASE s.pc # "gone"
    BY <1>5, <2>2
  <2> QED BY <2>1, <2>2
<1> DEFINE gg == Stage(g.body, Append(g.inq, Payload(g.ahead)), Advance(g.ahead))
<1>9. /\ gg \in Stages(LastId(k))
      /\ kk.body = gg.body /\ kk.inq = gg.inq /\ gg.ahead = Advance(g.ahead)
  <2>1. gg \in Stages(LastId(k))
    BY <1>7, StagePassedOn
  <2>2. Payload(g.ahead) = Payload(k.inbuf)
    BY <1>7 DEF Payload
  <2> QED BY <1>1, <1>5, <2>1, <2>2 DEF Stage
<1>10. /\ Rest(k, u, s) => Rest(kk, u, s)
       /\ Asking(k, u, s, f) => Asking(kk, u, s, f)
       /\ Serving(k, u, s, f) => Serving(kk, u, s, f)
  BY <1>1, <1>2 DEF Rest, Asking, Serving
<1>11. ServerInv(kk, u, s, f) /\ FetchedInv(kk, f) /\ ResultInv(f, r)
  BY <1>1, <1>2, <1>10 DEF ConnInv, ServerInv, FetchedInv
<1> HIDE DEF gg
<1>12. Answered(kk, u, d, s, f)
  <2>1. IF s.pc = "gone" THEN Begins(Downward(kk, d, s), gg.ahead)
        ELSE Downward(kk, d, s) = gg.ahead
    BY <1>3, <1>8, <1>9
  <2> QED BY <1>1, <1>2, <1>4, <1>9, <1>10, <2>1 DEF Answered
<1> QED BY <1>11, <1>12 DEF ConnInv, ClientInv

\* The reader task ends: what was still on the way is lost.
LEMMA StopKeeps ==
    ASSUME NEW k \in Client, NEW u, NEW d \in Seq(Unit), NEW s \in Server,
           NEW f \in Seq(1..MaxFetches), NEW r, NEW kk,
           ConnInv(k, u, d, s, f, r), k.reader, s.pc = "gone",
           kk = [k EXCEPT !.reader = FALSE]
    PROVE  ConnInv(kk, u, <<>>, s, f, r)
<1>1. /\ kk.alive = k.alive /\ kk.next = k.next /\ kk.calling = k.calling
      /\ kk.body = k.body /\ kk.inbuf = k.inbuf /\ kk.inq = k.inq /\ ~kk.reader
  BY DEF Client
<1>2. s.toWrite = <<>> /\ k.inbuf \in Seq(Unit)
  BY DEF ConnInv, ServerInv, Client
<1>3. ServerInv(kk, u, s, f) /\ FetchedInv(kk, f) /\ ResultInv(f, r)
  BY <1>1, <1>2 DEF ConnInv, ServerInv, FetchedInv, LastId
<1>4. CASE ~k.alive \/ Quiet(k, u, d, s, f)
  BY <1>1, <1>3, <1>4 DEF ConnInv, ClientInv, Deaf, Quiet
<1>5. CASE Answered(k, u, d, s, f)
  <2>1. PICK g \in Stages(LastId(k)) :
            k.body = g.body /\ k.inq = g.inq /\ Begins(Downward(k, d, s), g.ahead)
    BY <1>5 DEF Answered
  <2>2. Len(g.ahead) \in Nat
    <3>1. LastId(k) \in ToSet(f)
      BY <1>5 DEF Answered
    <3>2. LastId(k) \in 1..MaxFetches
      BY <3>1, InSet, Zenon
    <3> QED BY <3>2, StageType
  <2>3. Downward(k, d, s) = k.inbuf \o d /\ Downward(kk, <<>>, s) = k.inbuf
    <3>1. k.inbuf \o d \in Seq(Unit)
      BY <1>2, Slices
    <3>2. (k.inbuf \o d) \o <<>> = k.inbuf \o d
      BY <3>1, ConcatEmptySeq
    <3>3. (k.inbuf \o <<>>) \o <<>> = k.inbuf
      BY <1>2, ConcatEmptySeq
    <3> QED BY <1>1, <1>2, <3>2, <3>3 DEF Downward
  <2>4. Begins(k.inbuf, g.ahead)
    BY <1>2, <2>1, <2>2, <2>3, BeginsCut
  <2>5. Answered(kk, u, <<>>, s, f)
    BY <1>1, <1>5, <2>1, <2>3, <2>4 DEF Answered, LastId
  <2> QED BY <1>3, <2>5 DEF ConnInv, ClientInv
<1> QED BY <1>4, <1>5 DEF ConnInv, ClientInv, Deaf

\* netproc takes the request out of its buffer.
LEMMA ParseKeeps ==
    ASSUME NEW k \in Client, NEW u \in Seq(Unit), NEW d, NEW s \in Server, NEW f, NEW r, NEW ss,
           ConnInv(k, u, d, s, f, r), s.pc = "parse", HasPayload(s.buf),
           ss = [s EXCEPT !.pc = "lock", !.buf = Advance(@), !.id = Payload(s.buf).id]
    PROVE  ConnInv(k, u, d, ss, f, r)
<1>1. /\ ss.pc = "lock" /\ ss.buf = Advance(s.buf) /\ ss.id = Payload(s.buf).id
      /\ ss.toWrite = s.toWrite /\ s.toWrite = <<>>
  BY DEF Server, ConnInv, ServerInv
<1> DEFINE w == Upward(k, u, s)
<1>2. Len(w) >= 2 /\ w[1] = s.buf[1] /\ Upward(k, u, ss) = Advance(w)
  <2> DEFINE b == s.buf
             t == k.writing
  <2>1. b \in Seq(Unit) /\ t \in Seq(Unit) /\ Len(b) >= 2 /\ w = (b \o u) \o t
    BY DEF Server, Client, HasPayload, Upward
  <2>2. Upward(k, u, ss) = (Advance(b) \o u) \o t
    BY <1>1 DEF Upward
  <2> HIDE DEF b, t, w
  <2>3. /\ Len((b \o u) \o t) >= 2 /\ ((b \o u) \o t)[1] = b[1]
        /\ (SubSeq(b, 3, Len(b)) \o u) \o t
              = SubSeq((b \o u) \o t, 3, Len((b \o u) \o t))
    BY <2>1, TakeWhole
  <2>4. Len(w) >= 2 /\ w[1] = b[1] /\ Upward(k, u, ss) = Advance(w)
    BY <2>1, <2>2, <2>3 DEF Advance
  <2> QED BY <2>4 DEF b
<1>3. w # <<>>
  <2> HIDE DEF w
  <2> QED BY <1>2
<1>4. Asking(k, u, s, f) /\ k.out = <<>> /\ w = Encode(Ask(k))
  BY <1>3 DEF ConnInv, ServerInv, Rest, Serving, Asking
<1> HIDE DEF w
<1>5. Payload(s.buf) = Ask(k) /\ Upward(k, u, ss) = <<>>
  BY <1>2, <1>4, EncodeFirst DEF Payload
<1>6. ss.id = LastId(k)
  BY <1>1, <1>5 DEF Ask
<1>7. Serving(k, u, ss, f)
  BY <1>1, <1>4, <1>5, <1>6 DEF Serving, Asking
<1>8. k.alive => k.calling /\ Quiet(k, u, d, s, f)
  <2>1. ~Rest(k, u, s)
    BY <1>3 DEF Rest, w
  <2> QED BY <2>1 DEF ConnInv, ClientInv, Deaf, Answered, Quiet
<1>9. k.alive => Quiet(k, u, d, ss, f)
  BY <1>1, <1>7, <1>8 DEF Quiet, Downward
<1>10. ServerInv(k, u, ss, f)
  BY <1>1, <1>7 DEF ConnInv, ServerInv
<1> QED BY <1>9, <1>10 DEF ConnInv, ClientInv

\* The network client answers the request or fails: the answer is to be written.
LEMMA FetchKeeps ==
    ASSUME NEW k \in Client, NEW u, NEW d \in Seq(Unit), NEW s \in Server,
           NEW f \in Seq(1..MaxFetches), NEW r, NEW ff, NEW ss, NEW e,
           e = Events(s.id, TRUE) \/ e = Events(s.id, FALSE),
           ConnInv(k, u, d, s, f, r), s.pc = "fetch", s.id # 0,
           ff = Append(f, s.id),
           ss.pc = "write", ss.buf = s.buf, ss.id = s.id, ss.toWrite = e
    PROVE  ConnInv(k, u, d, ss, ff, r)
<1>1. /\ ss.pc = "write" /\ ss.buf = s.buf /\ ss.id = s.id /\ ss.toWrite = e
      /\ s.id \in 1..MaxFetches
  BY DEF Server
<1>2. Serving(k, u, s, f)
  BY DEF ConnInv, ServerInv, Rest, Asking
<1>3. Rest(k, u, ss) /\ s.id = LastId(k)
  BY <1>1, <1>2 DEF Serving, Rest, Upward
<1>4. /\ ToSet(ff) = ToSet(f) \cup {s.id}
      /\ \A a, b \in DOMAIN ff : ff[a] = ff[b] => a = b
  <2>1. /\ s.id \notin ToSet(f)
        /\ \A a, b \in DOMAIN f : f[a] = f[b] => a = b
    BY <1>2 DEF Serving, ConnInv, FetchedInv
  <2> DEFINE x == s.id
             T == 1..MaxFetches
  <2>2. x \in T /\ f \in Seq(T) /\ ff = Append(f, x) /\ x \notin ToSet(f)
    BY <1>1, <2>1
  <2> HIDE DEF x, T
  <2>3. /\ ToSet(Append(f, x)) = ToSet(f) \cup {x}
        /\ \A a, b \in DOMAIN Append(f, x) :
               Append(f, x)[a] = Append(f, x)[b] => a = b
    BY <2>1, <2>2, AppendSet
  <2> QED BY <2>2, <2>3 DEF x
<1>5. FetchedInv(k, ff) /\ ResultInv(ff, r)
  <2>1. \A a \in DOMAIN ff : ff[a] <= LastId(k)
    <3>1. LastId(k) \in Int
      BY <1>1, <1>3
    <3>2. \A x \in ToSet(ff) : x <= LastId(k)
      BY <1>1, <1>3, <1>4, <3>1 DEF ConnInv, FetchedInv, ToSet
    <3> QED BY <3>2 DEF ToSet
  <2> QED BY <1>4, <2>1 DEF FetchedInv, ResultInv, ConnInv
<1>6. ServerInv(k, u, ss, ff)
  BY <1>1, <1>2, <1>3 DEF ConnInv, ServerInv
<1>7. ASSUME k.alive PROVE Answered(k, u, d, ss, ff)
  <2>1. k.calling /\ Quiet(k, u, d, s, f)
    BY <1>2, <1>7 DEF ConnInv, ClientInv, Deaf, Answered, Quiet, Rest, Serving
  <2>2. k.inbuf = <<>> /\ d = <<>>
    <3>1. k.inbuf \in Seq(Unit) /\ s.toWrite \in Seq(Unit) /\ (k.inbuf \o d) \o s.toWrite = <<>>
      BY <2>1 DEF Client, Server, Quiet, Downward
    <3> QED BY <3>1, NoneOfThree
  <2> DEFINE g == Stage(<<>>, <<>>, e)
  <2>3. g \in Stages(LastId(k))
    BY <1>3 DEF Stages
  <2>4. Downward(k, d, ss) = e
    <3>1. e \in Seq(Unit) /\ <<>> \in Seq(Unit)
      <4>1. TRUE \in BOOLEAN /\ FALSE \in BOOLEAN
        OBVIOUS
      <4>2. Events(s.id, TRUE) \in Seq(Unit) /\ Events(s.id, FALSE) \in Seq(Unit)
        BY <1>1, <4>1, EventsType, Zenon
      <4>3. <<>> \in Seq(Unit)
        OBVIOUS
      <4>4. e \in Seq(Unit)
        <5> DEFINE T == Seq(Unit)
                   x == Events(s.id, TRUE)
                   y == Events(s.id, FALSE)
        <5>1. x \in T /\ y \in T /\ (e = x \/ e = y)
          BY <4>2
        <5> HIDE DEF T, x, y
        <5>2. e \in T
          BY <5>1
        <5> QED BY <5>2 DEF T
      <4> QED BY <4>3, <4>4
    <3>2. (<<>> \o <<>>) \o e = e
      BY <3>1, ConcatEmptySeq
    <3> QED BY <1>1, <2>2, <3>2 DEF Downward
  <2>5. g.body = <<>> /\ g.inq = <<>> /\ g.ahead = e
    BY DEF Stage
  <2>6. k.body = <<>> /\ k.inq = <<>>
    BY <2>1 DEF Quiet
  <2>7. LastId(k) \in ToSet(ff)
    BY <1>3, <1>4
  <2> HIDE DEF g
  <2> QED BY <1>1, <1>3, <2>1, <2>3, <2>4, <2>5, <2>6, <2>7 DEF Answered
<1> QED BY <1>5, <1>6, <1>7 DEF ConnInv, ClientInv

\* At first nothing is under way.
LEMMA WireInit == Init => WireInv
<1> SUFFICES ASSUME Init, NEW c \in Conns PROVE Conn(c)
  BY DEF WireInv
<1> DEFINE k == client[c]
           s == server[c]
<1>1. /\ k.alive = TRUE /\ k.next = 1 /\ k.calling = FALSE /\ k.out = <<>> /\ k.writing = <<>>
      /\ k.writer = TRUE /\ k.inbuf = <<>> /\ k.inq = <<>> /\ k.reader = TRUE
      /\ up[c] = <<>> /\ down[c] = <<>>
      /\ s.pc = "read" /\ s.buf = <<>> /\ s.toWrite = <<>>
      /\ fetched[c] = <<>> /\ result[c].outcome = "none"
  BY DEF Init, NoResult
<1>2. (<<>> \o <<>>) \o <<>> = <<>>
  OBVIOUS
<1> HIDE DEF k, s
<1>3. Upward(k, up[c], s) = <<>> /\ Downward(k, down[c], s) = <<>>
  BY <1>1, <1>2 DEF Upward, Downward
<1>4. Rest(k, up[c], s)
  BY <1>1, <1>3 DEF Rest
<1>5. ServerInv(k, up[c], s, fetched[c]) /\ Quiet(k, up[c], down[c], s, fetched[c])
  BY <1>1, <1>3, <1>4 DEF ServerInv, Quiet
<1>6. FetchedInv(k, fetched[c]) /\ ResultInv(fetched[c], result[c])
  <2>1. DOMAIN <<>> = {}
    OBVIOUS
  <2> QED BY <1>1, <2>1 DEF FetchedInv, ResultInv
<1> QED BY <1>5, <1>6 DEF Conn, ConnInv, ClientInv, k, s

\* The steps of the client.
LEMMA ClientSteps ==
    ASSUME TypeOK, NEW c \in Conns, Conn(c),
           Fetch(c) \/ Caller(c) \/ WriterTask(c) \/ ReaderTask(c) \/ ClientEnds(c)
    PROVE  Conn(c)'
<1> DEFINE k == client[c]
           u == up[c]
           d == down[c]
           s == server[c]
           f == fetched[c]
           r == result[c]
<1>0. /\ k \in Client /\ u \in Seq(Unit) /\ d \in Seq(Unit) /\ s \in Server
      /\ f \in Seq(1..MaxFetches)
      /\ client \in [Conns -> Client] /\ result \in [Conns -> Result]
      /\ up \in [Conns -> Seq(Unit)] /\ down \in [Conns -> Seq(Unit)]
  BY DEF TypeOK
<1>i. ConnInv(k, u, d, s, f, r)
  BY DEF Conn
<1>1. CASE Fetch(c) /\ k.writer
  <2>1. /\ client'[c] = [k EXCEPT !.next = @ + 1, !.calling = TRUE, !.body = <<>>,
                                  !.out = Append(@, [kind |-> "fetch", id |-> k.next])]
        /\ k.alive /\ ~k.calling
        /\ UNCHANGED <<up, down, server, fetched, result>>
    BY <1>0, <1>1 DEF Fetch
  <2>2. ConnInv(client'[c], u, d, s, f, r)
    BY <1>0, <1>1, <1>i, <2>1, StartKeeps
  <2> QED BY <2>1, <2>2 DEF Conn
<1>2. CASE Fetch(c) /\ ~k.writer
  <2>1. /\ client'[c] = [k EXCEPT !.next = @ + 1] /\ result'[c].outcome = "error"
        /\ k.alive /\ ~k.calling
        /\ UNCHANGED <<up, down, server, fetched>>
    BY <1>0, <1>2 DEF Fetch
  <2>2. ConnInv(client'[c], u, d, s, f, result'[c])
    BY <1>0, <1>2, <1>i, <2>1, StartFails
  <2> QED BY <2>1, <2>2 DEF Conn
<1>3. CASE Receive(c)
  <2>1. /\ client'[c] = Heard(k) /\ result'[c] = Told(k, r)
        /\ k.alive /\ k.calling /\ k.inq # <<>>
        /\ UNCHANGED <<up, down, server, fetched>>
    BY <1>0, <1>3 DEF Receive, Returns, CurrentId, LastId, Heard, Told, IsLast
  <2>2. ConnInv(Heard(k), u, d, s, f, Told(k, r))
    BY <1>0, <1>i, <2>1, EventKeeps
  <2> QED BY <2>1, <2>2 DEF Conn
<1>4. CASE ReceiveFails(c)
  <2>1. /\ client'[c] = [k EXCEPT !.calling = FALSE] /\ result'[c].outcome = "error"
        /\ k.inq = <<>> /\ ~k.reader
        /\ UNCHANGED <<up, down, server, fetched>>
    BY <1>0, <1>4 DEF ReceiveFails, Returns
  <2>2. ConnInv(client'[c], u, d, s, f, result'[c])
    BY <1>0, <1>i, <2>1, GiveUpKeeps
  <2> QED BY <2>1, <2>2 DEF Conn
<1>5. CASE TakeFrame(c)
  <2>1. /\ client'[c] = [k EXCEPT !.out = Tail(@), !.writing = Encode(Head(k.out))]
        /\ k.writing = <<>> /\ k.out # <<>>
        /\ UNCHANGED <<up, down, server, fetched, result>>
    BY <1>0, <1>5 DEF TakeFrame
  <2>2. CASE s.pc # "gone"
    <3>1. ConnInv(client'[c], u, d, s, f, r)
      BY <1>0, <1>i, <2>1, <2>2, TakeKeeps
    <3> QED BY <2>1, <3>1 DEF Conn
  <2>3. CASE s.pc = "gone"
    <3> DEFINE kk == client'[c]
    <3>1. /\ kk.alive = k.alive /\ kk.next = k.next /\ kk.calling = k.calling
          /\ kk.body = k.body /\ kk.inbuf = k.inbuf /\ kk.inq = k.inq /\ kk.reader = k.reader
      BY <1>0, <2>1 DEF Client
    <3>2. s.toWrite = <<>> /\ Downward(kk, d, s) = Downward(k, d, s)
      BY <1>i, <2>3, <3>1 DEF ConnInv, ServerInv, Downward
    <3> HIDE DEF kk
    <3>3. ConnInv(kk, u, d, s, f, r)
      BY <1>i, <2>3, <3>1, <3>2, WireMoves
    <3> QED BY <2>1, <3>3 DEF Conn, kk
  <2> QED BY <2>2, <2>3
<1>6. CASE WriteUp(c)
  <2> DEFINE kk == client'[c]
             uu == up'[c]
  <2>1. /\ kk = [k EXCEPT !.writing = Tail(@)] /\ k.writing # <<>>
        /\ s.pc # "gone" => uu = Append(u, Head(k.writing))
        /\ UNCHANGED <<down, server, fetched, result>>
    BY <1>0, <1>6 DEF WriteUp, ServerGone
  <2>2. /\ kk.alive = k.alive /\ kk.next = k.next /\ kk.calling = k.calling
        /\ kk.body = k.body /\ kk.inbuf = k.inbuf /\ kk.inq = k.inq /\ kk.reader = k.reader
        /\ kk.writer = k.writer /\ kk.out = k.out /\ kk.writing = Tail(k.writing)
    BY <1>0, <2>1 DEF Client
  <2>3. Downward(kk, d, s) = Downward(k, d, s)
    BY <2>2 DEF Downward
  <2>4. s.pc # "gone" => Upward(kk, uu, s) = Upward(k, u, s)
    <3>1. (s.buf \o Append(u, Head(k.writing))) \o Tail(k.writing) = (s.buf \o u) \o k.writing
      <4> DEFINE a == s.buf
                 b == k.writing
      <4>1. a \in Seq(Unit) /\ b \in Seq(Unit) /\ u \in Seq(Unit) /\ b # <<>>
        BY <1>0, <2>1 DEF Server, Client
      <4> HIDE DEF a, b, u
      <4>2. (a \o Append(u, Head(b))) \o Tail(b) = (a \o u) \o b
        BY <4>1, PutWhole, Zenon
      <4> QED BY <4>2 DEF a, b
    <3> QED BY <2>1, <2>2, <3>1 DEF Upward
  <2>5. s.pc # "write" => s.toWrite = <<>>
    BY <1>i DEF ConnInv, ServerInv
  <2> HIDE DEF kk, uu
  <2>6. ConnInv(kk, uu, d, s, f, r)
    BY <1>i, <2>2, <2>3, <2>4, <2>5, WireMoves
  <2> QED BY <2>1, <2>6 DEF Conn, kk, uu
<1>7. CASE WriterFails(c)
  <2> DEFINE kk == client'[c]
  <2>p. s.pc = "gone"
    BY <1>7 DEF WriterFails, ServerGone
  <2>1. /\ kk = [k EXCEPT !.writer = FALSE, !.writing = <<>>, !.out = <<>>]
        /\ UNCHANGED <<up, down, server, fetched, result>>
    BY <1>0, <1>7 DEF WriterFails, ServerGone
  <2>2. /\ kk.alive = k.alive /\ kk.next = k.next /\ kk.calling = k.calling
        /\ kk.body = k.body /\ kk.inbuf = k.inbuf /\ kk.inq = k.inq /\ kk.reader = k.reader
    BY <1>0, <2>1 DEF Client
  <2>3. s.toWrite = <<>> /\ Downward(kk, d, s) = Downward(k, d, s)
    BY <1>i, <2>p, <2>2 DEF ConnInv, ServerInv, Downward
  <2> HIDE DEF kk
  <2>4. ConnInv(kk, u, d, s, f, r)
    BY <1>i, <2>p, <2>2, <2>3, WireMoves
  <2> QED BY <2>1, <2>4 DEF Conn, kk
<1>8. CASE ReadDown(c)
  <2> DEFINE kk == client'[c]
             dd == down'[c]
  <2>1. PICK n \in 1..Len(d) :
           /\ kk = [k EXCEPT !.inbuf = @ \o SubSeq(d, 1, n)]
           /\ dd = SubSeq(d, n + 1, Len(d))
    BY <1>0, <1>8 DEF ReadDown
  <2>u. UNCHANGED <<up, server, fetched, result>>
    BY <1>8 DEF ReadDown
  <2>2. /\ kk.alive = k.alive /\ kk.next = k.next /\ kk.calling = k.calling
        /\ kk.body = k.body /\ kk.inq = k.inq /\ kk.reader = k.reader
        /\ kk.writer = k.writer /\ kk.out = k.out /\ kk.writing = k.writing
        /\ kk.inbuf = k.inbuf \o SubSeq(d, 1, n)
    BY <1>0, <2>1 DEF Client
  <2>3. Downward(kk, dd, s) = Downward(k, d, s)
    <3>1. kk.inbuf \o dd = k.inbuf \o d
      <4> DEFINE a == k.inbuf
      <4>1. a \in Seq(Unit) /\ d \in Seq(Unit)
        BY <1>0 DEF Client
      <4> HIDE DEF a, d
      <4>2. (a \o SubSeq(d, 1, n)) \o SubSeq(d, n + 1, Len(d)) = a \o d
        BY <4>1, ReadWhole
      <4> QED BY <2>1, <2>2, <4>2 DEF a
    <3> QED BY <3>1 DEF Downward
  <2>4. Upward(kk, u, s) = Upward(k, u, s) /\ (s.pc # "write" => s.toWrite = <<>>)
    BY <1>i, <2>2 DEF Upward, ConnInv, ServerInv
  <2> HIDE DEF kk, dd
  <2>5. ConnInv(kk, u, dd, s, f, r)
    BY <1>i, <2>2, <2>3, <2>4, WireMoves
  <2> QED BY <2>5, <2>u DEF Conn, kk, dd
<1>9. CASE PassOn(c)
  <2>1. /\ client'[c] = [k EXCEPT !.inq = Append(@, Payload(k.inbuf)), !.inbuf = Advance(@)]
        /\ k.alive /\ k.reader /\ HasPayload(k.inbuf)
        /\ UNCHANGED <<up, down, server, fetched, result>>
    BY <1>0, <1>9 DEF PassOn, Running
  <2>2. ConnInv(client'[c], u, d, s, f, r)
    BY <1>0, <1>i, <2>1, PassKeeps
  <2> QED BY <2>1, <2>2 DEF Conn
<1>10. CASE ReaderEnds(c)
  <2>1. /\ client'[c] = [k EXCEPT !.reader = FALSE] /\ down'[c] = <<>>
        /\ k.reader /\ s.pc = "gone"
        /\ UNCHANGED <<up, server, fetched, result>>
    BY <1>0, <1>10 DEF ReaderEnds, ServerGone
  <2>2. ConnInv(client'[c], u, <<>>, s, f, r)
    BY <1>0, <1>i, <2>1, StopKeeps
  <2> QED BY <2>1, <2>2 DEF Conn
<1>11. CASE ClientEnds(c)
  <2> DEFINE kk == client'[c]
  <2>1. /\ kk = [k EXCEPT !.alive = FALSE, !.calling = FALSE]
        /\ UNCHANGED <<up, down, server, fetched, result>>
    BY <1>0, <1>11 DEF ClientEnds
  <2>2. /\ kk.alive = FALSE /\ kk.next = k.next /\ kk.writer = k.writer /\ kk.reader = k.reader
        /\ kk.out = k.out /\ kk.writing = k.writing
    BY <1>0, <2>1 DEF Client
  <2>3. Upward(kk, u, s) = Upward(k, u, s) /\ (s.pc # "write" => s.toWrite = <<>>)
    BY <1>i, <2>2 DEF Upward, ConnInv, ServerInv
  <2> HIDE DEF kk
  <2>4. ConnInv(kk, u, d, s, f, r)
    BY <1>i, <2>2, <2>3, WireMoves
  <2> QED BY <2>1, <2>4 DEF Conn, kk
<1> QED
  BY <1>1, <1>2, <1>3, <1>4, <1>5, <1>6, <1>7, <1>8, <1>9, <1>10, <1>11
  DEF Caller, WriterTask, ReaderTask

\* The steps of netproc.
LEMMA ServerSteps ==
    ASSUME TypeOK, NEW c \in Conns, Conn(c), ServerTask(c)
    PROVE  Conn(c)'
<1> DEFINE k == client[c]
           u == up[c]
           d == down[c]
           s == server[c]
           f == fetched[c]
           r == result[c]
           ss == server'[c]
<1>0. /\ k \in Client /\ u \in Seq(Unit) /\ d \in Seq(Unit) /\ s \in Server
      /\ f \in Seq(1..MaxFetches)
      /\ server \in [Conns -> Server] /\ fetched \in [Conns -> Seq(1..MaxFetches)]
      /\ up \in [Conns -> Seq(Unit)] /\ down \in [Conns -> Seq(Unit)]
      /\ s.pc \in {"lock", "fetch"} => s.id # 0
  BY DEF TypeOK
<1>i. ConnInv(k, u, d, s, f, r) /\ (s.pc # "write" => s.toWrite = <<>>)
  BY DEF Conn, ConnInv, ServerInv
<1>1. CASE ServerRead(c)
  <2> DEFINE uu == up'[c]
  <2>1. PICK n \in 1..Len(u) :
           /\ ss = [s EXCEPT !.buf = @ \o SubSeq(u, 1, n), !.pc = "parse"]
           /\ uu = SubSeq(u, n + 1, Len(u))
    BY <1>0, <1>1 DEF ServerRead
  <2>u. s.pc = "read" /\ UNCHANGED <<client, down, fetched, result>>
    BY <1>1 DEF ServerRead
  <2>2. /\ ss.pc = "parse" /\ ss.buf = s.buf \o SubSeq(u, 1, n)
        /\ ss.toWrite = s.toWrite /\ ss.id = s.id
    BY <1>0, <2>1 DEF Server
  <2>3. Upward(k, uu, ss) = Upward(k, u, s)
    <3>1. ss.buf \o uu = s.buf \o u
      <4> DEFINE a == s.buf
      <4>1. a \in Seq(Unit) /\ u \in Seq(Unit)
        BY <1>0 DEF Server
      <4> HIDE DEF a, u
      <4>2. (a \o SubSeq(u, 1, n)) \o SubSeq(u, n + 1, Len(u)) = a \o u
        BY <4>1, ReadWhole
      <4> QED BY <2>1, <2>2, <4>2 DEF a
    <3> QED BY <3>1 DEF Upward
  <2>4. Downward(k, d, ss) = Downward(k, d, s) /\ ss.toWrite = <<>>
    BY <1>i, <2>2, <2>u DEF Downward
  <2> HIDE DEF ss, uu
  <2>5. ConnInv(k, uu, d, ss, f, r)
    BY <1>i, <2>2, <2>3, <2>4, <2>u, WireMoves
  <2> QED BY <2>5, <2>u DEF Conn, ss, uu
<1>2. CASE ServerReadsEnd(c) \/ ServerReadFails(c)
  <2>1. PICK pc \in {"gone", "parse"} : ss = [s EXCEPT !.pc = pc]
    BY <1>0, <1>2 DEF ServerReadsEnd, ServerReadFails
  <2>2. /\ s.pc = "read" /\ ~k.alive
        /\ UNCHANGED <<client, down, fetched, result>>
    BY <1>2 DEF ServerReadsEnd, ServerReadFails
  <2>3. /\ ss.pc = pc /\ ss.buf = s.buf /\ ss.id = s.id /\ ss.toWrite = <<>>
    BY <1>0, <1>i, <2>1, <2>2 DEF Server
  <2>4. pc = "parse" => up'[c] = u
    <3>1. ServerReadFails(c) => pc = "gone"
      <4>1. ServerReadFails(c) => ss.pc = "gone"
        BY <1>0 DEF ServerReadFails, Server
      <4> QED BY <2>3, <4>1
    <3> QED BY <1>2, <3>1 DEF ServerReadsEnd
  <2>5. Upward(k, u, ss) = Upward(k, u, s) /\ Downward(k, d, ss) = Downward(k, d, s)
    BY <1>i, <2>2, <2>3 DEF Upward, Downward
  <2> DEFINE uu == up'[c]
  <2> HIDE DEF ss, uu
  <2>6. CASE pc = "gone"
    <3>1. ConnInv(k, uu, d, ss, f, r)
      BY <1>i, <2>2, <2>3, <2>6, BothEnded
    <3> QED BY <2>2, <3>1 DEF Conn, ss, uu
  <2>7. CASE pc = "parse"
    <3>1. ConnInv(k, u, d, ss, f, r)
      BY <1>i, <2>2, <2>3, <2>5, <2>7, WireMoves
    <3> QED BY <2>2, <2>4, <2>7, <3>1 DEF Conn, ss, uu
  <2> QED BY <2>1, <2>6, <2>7
<1>3. CASE ServerParse(c) /\ HasPayload(s.buf)
  <2>1. /\ ss = [s EXCEPT !.pc = "lock", !.buf = Advance(@), !.id = Payload(s.buf).id]
        /\ s.pc = "parse"
        /\ UNCHANGED <<client, up, down, fetched, result>>
    BY <1>0, <1>3 DEF ServerParse
  <2>2. ConnInv(k, u, d, ss, f, r)
    BY <1>0, <1>3, <1>i, <2>1, ParseKeeps
  <2> QED BY <2>1, <2>2 DEF Conn
<1>4. CASE (ServerParse(c) /\ ~HasPayload(s.buf)) \/ ServerLock(c) \/ ServerUnlock(c)
  <2>1. /\ UNCHANGED <<client, up, down, fetched, result>>
        /\ \E pc \in {"read", "fetch", "parse"} :
              /\ ss = [s EXCEPT !.pc = pc]
              /\ s.pc = IF pc = "read" THEN "parse"
                        ELSE IF pc = "fetch" THEN "lock" ELSE "write"
              /\ pc = "parse" => s.toWrite = <<>>
    <3>1. CASE ServerParse(c) /\ ~HasPayload(s.buf)
      BY <1>0, <3>1 DEF ServerParse
    <3>2. CASE ServerLock(c)
      BY <1>0, <3>2 DEF ServerLock
    <3>3. CASE ServerUnlock(c)
      BY <1>0, <3>3 DEF ServerUnlock
    <3> QED BY <1>4, <3>1, <3>2, <3>3
  <2>2. PICK pc \in {"read", "fetch", "parse"} :
              /\ ss = [s EXCEPT !.pc = pc]
              /\ s.pc = IF pc = "read" THEN "parse"
                        ELSE IF pc = "fetch" THEN "lock" ELSE "write"
              /\ pc = "parse" => s.toWrite = <<>>
    BY <2>1
  <2>3. /\ ss.pc = pc /\ ss.buf = s.buf /\ ss.id = s.id /\ ss.toWrite = s.toWrite
        /\ s.toWrite = <<>>
    BY <1>0, <1>i, <2>2 DEF Server
  <2>4. Upward(k, u, ss) = Upward(k, u, s) /\ Downward(k, d, ss) = Downward(k, d, s)
    BY <2>3 DEF Upward, Downward
  <2>5. \/ {s.pc, ss.pc} \subseteq {"read", "parse", "write"}
        \/ {s.pc, ss.pc} \subseteq {"lock", "fetch"}
    BY <2>2, <2>3
  <2> HIDE DEF ss
  <2>6. ConnInv(k, u, d, ss, f, r)
    BY <1>i, <2>3, <2>4, <2>5, WireMoves
  <2> QED BY <2>1, <2>6 DEF Conn, ss
<1>5. CASE ServerFetch(c)
  <2>1. PICK e \in {Events(s.id, TRUE), Events(s.id, FALSE)} :
           ss = [s EXCEPT !.pc = "write", !.toWrite = e]
    <3>1. \/ ss = [s EXCEPT !.pc = "write", !.toWrite = Events(s.id, TRUE)]
          \/ ss = [s EXCEPT !.pc = "write", !.toWrite = Events(s.id, FALSE)]
      BY <1>0, <1>5 DEF ServerFetch
    <3> QED BY <3>1
  <2>2. /\ fetched'[c] = Append(f, s.id) /\ s.pc = "fetch"
        /\ UNCHANGED <<client, up, down, result>>
    BY <1>0, <1>5 DEF ServerFetch
  <2>3. ss.pc = "write" /\ ss.buf = s.buf /\ ss.id = s.id /\ ss.toWrite = e
    BY <1>0, <2>1 DEF Server
  <2>4. s.id # 0 /\ (e = Events(s.id, TRUE) \/ e = Events(s.id, FALSE))
    BY <1>0, <2>2
  <2> DEFINE ff == fetched'[c]
  <2> HIDE DEF ss, ff
  <2>5. ConnInv(k, u, d, ss, ff, r)
    BY <1>0, <1>i, <2>2, <2>3, <2>4, FetchKeeps DEF ff
  <2> QED BY <2>2, <2>5 DEF Conn, ss, ff
<1>6. CASE ServerWrite(c) /\ k.alive
  <2> DEFINE dd == down'[c]
  <2>1. /\ ss = [s EXCEPT !.toWrite = Tail(@)] /\ dd = Append(d, Head(s.toWrite))
        /\ s.pc = "write" /\ s.toWrite # <<>>
        /\ UNCHANGED <<client, up, fetched, result>>
    BY <1>0, <1>6 DEF ServerWrite
  <2>2. ss.pc = s.pc /\ ss.buf = s.buf /\ ss.id = s.id /\ ss.toWrite = Tail(s.toWrite)
    BY <1>0, <2>1 DEF Server
  <2>3. Downward(k, dd, ss) = Downward(k, d, s)
    <3> DEFINE a == k.inbuf
               b == s.toWrite
    <3>1. a \in Seq(Unit) /\ b \in Seq(Unit) /\ d \in Seq(Unit) /\ b # <<>>
      BY <1>0, <2>1 DEF Server, Client
    <3> HIDE DEF a, b, d
    <3>2. (a \o Append(d, Head(b))) \o Tail(b) = (a \o d) \o b
      BY <3>1, PutWhole, Zenon
    <3> QED BY <2>1, <2>2, <3>2 DEF Downward, a, b
  <2>4. Upward(k, u, ss) = Upward(k, u, s) /\ s.pc = "write"
    BY <2>1, <2>2 DEF Upward
  <2> HIDE DEF ss, dd
  <2>5. ConnInv(k, u, dd, ss, f, r)
    BY <1>i, <2>2, <2>3, <2>4, WireMoves
  <2> QED BY <2>1, <2>5 DEF Conn, ss, dd
<1>7. CASE ServerWrite(c) /\ ~k.alive
  <2>1. /\ ss = [s EXCEPT !.toWrite = <<>>] /\ s.pc = "write"
        /\ UNCHANGED <<client, up, down, fetched, result>>
    BY <1>0, <1>7 DEF ServerWrite
  <2>2. ss.pc = "write" /\ s.pc = "write" /\ ss.buf = s.buf /\ ss.id = s.id
    BY <1>0, <2>1 DEF Server
  <2>3. Upward(k, u, ss) = Upward(k, u, s)
    BY <2>2 DEF Upward
  <2>4. ~k.alive
    BY <1>7
  <2> HIDE DEF ss
  <2>5. ConnInv(k, u, d, ss, f, r)
    BY <1>i, <2>2, <2>3, <2>4, WireMoves
  <2> QED BY <2>1, <2>5 DEF Conn, ss
<1> QED
  BY <1>1, <1>2, <1>3, <1>4, <1>5, <1>6, <1>7 DEF ServerTask

\* netproc dies: what was on the way up is lost, what is on the way down is cut.
LEMMA DeathKeeps == TypeOK /\ WireInv /\ NetprocDies => WireInv'
<1> SUFFICES ASSUME TypeOK, WireInv, NetprocDies, NEW c \in Conns PROVE Conn(c)'
  BY DEF WireInv
<1>1. /\ server'[c].pc = "gone" /\ server'[c].toWrite = <<>>
      /\ UNCHANGED <<client, down, fetched, result>>
  BY DEF NetprocDies
<1>2. /\ client[c] \in Client /\ down[c] \in Seq(Unit) /\ server[c] \in Server
      /\ fetched[c] \in Seq(1..MaxFetches)
  BY DEF TypeOK
<1>3. ConnInv(client[c], up[c], down[c], server[c], fetched[c], result[c])
  BY DEF WireInv, Conn
<1>4. ConnInv(client[c], up'[c], down[c], server'[c], fetched[c], result[c])
  BY <1>1, <1>2, <1>3, ServerLost
<1> QED BY <1>1, <1>4 DEF Conn

\* A step for one connection leaves the others as they were.
LEMMA OthersKept ==
    ASSUME TypeOK, NEW c \in Conns, NEW e \in Conns, e # c,
           \/ Fetch(c) \/ ClientEnds(c) \/ Caller(c) \/ WriterTask(c) \/ ReaderTask(c)
           \/ ServerTask(c)
    PROVE  /\ client'[e] = client[e] /\ up'[e] = up[e] /\ down'[e] = down[e]
           /\ server'[e] = server[e] /\ fetched'[e] = fetched[e] /\ result'[e] = result[e]
<1>0. /\ client \in [Conns -> Client] /\ up \in [Conns -> Seq(Unit)]
      /\ down \in [Conns -> Seq(Unit)] /\ server \in [Conns -> Server]
      /\ fetched \in [Conns -> Seq(1..MaxFetches)] /\ result \in [Conns -> Result]
  BY DEF TypeOK
<1>1. CASE Fetch(c) \/ ClientEnds(c) \/ Caller(c)
  BY <1>0, <1>1 DEF Fetch, ClientEnds, Caller, Receive, ReceiveFails, Returns
<1>2. CASE WriterTask(c)
  BY <1>0, <1>2 DEF WriterTask, TakeFrame, WriteUp, WriterFails
<1>3. CASE ReaderTask(c)
  BY <1>0, <1>3 DEF ReaderTask, ReadDown, PassOn, ReaderEnds
<1>4. CASE ServerTask(c)
  BY <1>0, <1>4 DEF ServerTask, ServerRead, ServerReadsEnd, ServerReadFails, ServerParse,
     ServerLock, ServerFetch, ServerWrite, ServerUnlock
<1> QED BY <1>1, <1>2, <1>3, <1>4

\* Every step keeps what the connections carry.
LEMMA WireStep == TypeOK /\ WireInv /\ [Next]_vars => WireInv'
<1> SUFFICES ASSUME TypeOK, WireInv, [Next]_vars PROVE WireInv'
  OBVIOUS
<1>1. CASE UNCHANGED vars
  BY <1>1 DEF vars, WireInv, Conn
<1>2. CASE NetprocDies
  BY <1>2, DeathKeeps
<1>3. ASSUME NEW c \in Conns,
             \/ Fetch(c) \/ ClientEnds(c) \/ Caller(c) \/ WriterTask(c) \/ ReaderTask(c)
             \/ ServerTask(c)
      PROVE  WireInv'
  <2>1. Conn(c)'
    <3>1. Conn(c)
      BY DEF WireInv
    <3> QED BY <1>3, <3>1, ClientSteps, ServerSteps
  <2>2. ASSUME NEW e \in Conns, e # c PROVE Conn(e)'
    <3>1. /\ client'[e] = client[e] /\ up'[e] = up[e] /\ down'[e] = down[e]
          /\ server'[e] = server[e] /\ fetched'[e] = fetched[e] /\ result'[e] = result[e]
      BY <1>3, <2>2, OthersKept
    <3> QED BY <3>1 DEF WireInv, Conn
  <2> QED BY <2>1, <2>2 DEF WireInv
<1> QED BY <1>1, <1>2, <1>3 DEF Next

\* What the connections carry makes every fetch whole.
LEMMA WireGives == TypeOK /\ WireInv => FetchIsWhole
<1> SUFFICES ASSUME TypeOK, WireInv PROVE FetchIsWhole
  OBVIOUS
<1>1. ASSUME NEW c \in Conns
      PROVE  /\ IsInjective(fetched[c])
             /\ result[c].outcome = "ok" =>
                   /\ result[c].body = <<result[c].id>>
                   /\ Contains(fetched[c], result[c].id)
  <2>1. FetchedInv(client[c], fetched[c]) /\ ResultInv(fetched[c], result[c])
    BY DEF WireInv, Conn, ConnInv
  <2>2. fetched[c] \in Seq(1..MaxFetches)
    BY DEF TypeOK
  <2>3. IsInjective(fetched[c])
    BY <2>1 DEF IsInjective, FetchedInv
  <2>4. ASSUME result[c].outcome = "ok"
        PROVE  result[c].body = <<result[c].id>> /\ Contains(fetched[c], result[c].id)
    <3>1. result[c].body = <<result[c].id>> /\ result[c].id \in ToSet(fetched[c])
      BY <2>1, <2>4 DEF ResultInv
    <3>2. DOMAIN fetched[c] = 1..Len(fetched[c])
      BY <2>2
    <3>3. Contains(fetched[c], result[c].id)
      BY <3>1, <3>2 DEF Contains, ToSet
    <3> QED BY <3>1, <3>3
  <2> QED BY <2>3, <2>4
<1>2. ASSUME NEW c \in Conns, client[c].alive, ~client[c].calling, ~ServerGone(c)
      PROVE  /\ <<>> = client[c].out \o client[c].inq
             /\ <<>> = client[c].writing \o client[c].inbuf \o up[c] \o down[c]
                        \o server[c].buf \o server[c].toWrite
  <2> DEFINE k == client[c]
             s == server[c]
  <2>1. k \in Client /\ s \in Server /\ up[c] \in Seq(Unit) /\ down[c] \in Seq(Unit)
    BY DEF TypeOK
  <2>2. /\ k.alive /\ ~k.calling /\ s.pc # "gone"
        /\ ClientInv(k, up[c], down[c], s, fetched[c])
    BY <1>2 DEF ServerGone, WireInv, Conn, ConnInv
  <2>3. /\ k.inq = <<>> /\ Downward(k, down[c], s) = <<>>
        /\ k.out = <<>> /\ Upward(k, up[c], s) = <<>>
    BY <2>2 DEF ClientInv, Deaf, Quiet, Answered, Rest
  <2>4. /\ k.inbuf \in Seq(Unit) /\ s.toWrite \in Seq(Unit)
        /\ s.buf \in Seq(Unit) /\ k.writing \in Seq(Unit)
    BY <2>1 DEF Client, Server
  <2>5. k.inbuf = <<>> /\ down[c] = <<>> /\ s.toWrite = <<>>
    BY <2>1, <2>3, <2>4, NoneOfThree DEF Downward
  <2>6. s.buf = <<>> /\ up[c] = <<>> /\ k.writing = <<>>
    BY <2>1, <2>3, <2>4, NoneOfThree DEF Upward
  <2>7. <<>> \o <<>> = <<>>
    OBVIOUS
  <2> QED BY <2>3, <2>5, <2>6, <2>7
<1>3. AnswerIsOwn
  BY <1>1 DEF AnswerIsOwn
<1>4. NothingLeft
  BY <1>2 DEF NothingLeft
<1> QED BY <1>3, <1>4 DEF FetchIsWhole

\* A fetch that succeeds returns the body of its own request and nothing else, a
\* request goes to the network at most once, and a fetch that returned leaves
\* nothing on the wire, however reads cut the frames and whatever dies
\* (NetprocClient::fetch, create_tcp_endpoint and handle_connection).
THEOREM FetchesAreWhole == Spec => []FetchIsWhole
<1>1. Spec => []TypeOK
  BY NetProcessTypes
<1>2. TypeOK /\ TypeOK' /\ WireInv /\ [Next]_vars => WireInv'
  BY WireStep
<1>3. Spec => []WireInv
  BY <1>1, <1>2, WireInit, PTL DEF Spec
<1>4. Spec => [](TypeOK /\ WireInv)
  BY <1>1, <1>3, PTL
<1> QED BY <1>4, WireGives, PTL
===============================================================================
