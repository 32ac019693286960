------------------------------ MODULE NetProcess ------------------------------
(***************************************************************************)
(* The main document of a page is fetched by a process of its own, netproc *)
(* (src/bins/netproc).  A NetprocClient owns one TCP connection to it; two *)
(* tasks of create_tcp_endpoint move frames between the connection and two *)
(* bounded channels.  netproc serves every connection in a task of its     *)
(* own; the tasks share one NetworkClient behind a tokio Mutex.            *)
(*                                                                         *)
(* A frame is a header with the length and a payload: two units on the     *)
(* wire, so that a read can end inside a frame.  The answer to a request   *)
(* is a frame with the body and one that completes it, or one failure.     *)
(* The engine is the only user of its client and fetches one page after    *)
(* the other; the tasks of the endpoint run while it waits (the engine's   *)
(* runtime has one thread), and so does the model.                         *)
(*                                                                         *)
(* Left out: commands no program sends (ClearCache, Shutdown, ...) and     *)
(* frames over 64 MB, which the 16 MB limit of NetworkClient rules out.    *)
(***************************************************************************)
EXTENDS Naturals, FiniteSets, SequencesExt

CONSTANTS
    Conns,       \* the connections to netproc
    MaxFetches,  \* bound on the fetches of one client
    Fetches,     \* per connection, how often its client fetches
    ChannelCap,  \* frames in a channel of the endpoint (64 in the code)
    SocketCap    \* units one direction of a connection can hold

ASSUME NetProcessAssumption ==
    /\ MaxFetches \in Nat
    /\ Fetches \in [Conns -> 0..MaxFetches]
    /\ ChannelCap \in Nat \ {0}
    /\ SocketCap \in Nat \ {0}

VARIABLES
    client,   \* per connection, the client, its endpoint and its caller
    up,       \* per connection, the units on the way to netproc
    down,     \* per connection, the units on the way to the client
    server,   \* per connection, the task handle_connection
    mutex,    \* the holder of the NetworkClient, and behind it who waits
    fetched,  \* per connection, the requests given to the NetworkClient
    result    \* per connection, what the last fetch returned

vars == <<client, up, down, server, mutex, fetched, result>>

-------------------------------------------------------------------------------

Frame == [kind : {"fetch", "body", "complete", "failed"}, id : 1..MaxFetches]

Unit == [part : {"head", "tail"}, frame : Frame]

\* BincodeCodec::encode: the header with the length, then the payload.
Encode(f) == <<[part |-> "head", frame |-> f], [part |-> "tail", frame |-> f]>>

\* read_raw_payload finds a frame only when its last byte is there ...
HasPayload(buf) == Len(buf) >= 2

\* ... and takes it out of the buffer.
Payload(buf) == buf[1].frame

Advance(buf) == SubSeq(buf, 3, Len(buf))

NoResult == [outcome |-> "none", id |-> 0, body |-> <<>>]

Init ==
    /\ client = [c \in Conns |->
           [alive |-> TRUE, next |-> 1, calling |-> FALSE, body |-> <<>>,
            out |-> <<>>, writing |-> <<>>, writer |-> TRUE,
            inbuf |-> <<>>, inq |-> <<>>, reader |-> TRUE]]
    /\ up = [c \in Conns |-> <<>>]
    /\ down = [c \in Conns |-> <<>>]
    /\ server = [c \in Conns |->
                    [pc |-> "read", buf |-> <<>>, id |-> 0, toWrite |-> <<>>]]
    /\ mutex = <<>>
    /\ fetched = [c \in Conns |-> <<>>]
    /\ result = [c \in Conns |-> NoResult]

\* The id of the fetch in progress: fetch_add returns the old value.
CurrentId(c) == client[c].next - 1

ServerGone(c) == server[c].pc = "gone"

-------------------------------------------------------------------------------
(* The client: NetprocClient::fetch and the two tasks of its endpoint.       *)

Returns(c, outcome) ==
    result' = [result EXCEPT ![c] = [outcome |-> outcome,
                                     id |-> CurrentId(c),
                                     body |-> client[c].body]]

\* Mutant of Fetch: the body of the last fetch is kept.
FetchKeepingBody(c) ==
    /\ client[c].alive /\ ~client[c].calling
    /\ client[c].next <= Fetches[c]
    /\ client[c].writer /\ Len(client[c].out) < ChannelCap
    /\ client' = [client EXCEPT
           ![c].next = @ + 1, ![c].calling = TRUE,
           ![c].out = Append(@, [kind |-> "fetch", id |-> client[c].next])]
    /\ UNCHANGED <<up, down, server, mutex, fetched, result>>

\* NetprocClient::fetch up to its loop.  The send fails when the writer task
\* has ended.
Fetch(c) ==
    /\ client[c].alive /\ ~client[c].calling
    /\ client[c].next <= Fetches[c]
    /\ LET id == client[c].next
       IN  IF client[c].writer
           THEN /\ Len(client[c].out) < ChannelCap
                /\ client' = [client EXCEPT
                       ![c].next = @ + 1, ![c].calling = TRUE, ![c].body = <<>>,
                       ![c].out = Append(@, [kind |-> "fetch", id |-> id])]
                /\ UNCHANGED result
           ELSE /\ client' = [client EXCEPT ![c].next = @ + 1]
                /\ result' = [result EXCEPT ![c] =
                       [outcome |-> "error", id |-> id, body |-> <<>>]]
    /\ UNCHANGED <<up, down, server, mutex, fetched>>

\* The loop of fetch takes the next event; one of another request is dropped.
Receive(c) ==
    /\ client[c].alive /\ client[c].calling
    /\ client[c].inq # <<>>
    /\ LET event == Head(client[c].inq)
           own == event.id = CurrentId(c)
           over == own /\ event.kind \in {"complete", "failed"}
       IN  /\ client' = [client EXCEPT
                  ![c].inq = Tail(@),
                  ![c].calling = ~over,
                  ![c].body = IF own /\ event.kind = "body"
                              THEN Append(@, event.id) ELSE @]
           /\ IF over
              THEN Returns(c, IF event.kind = "complete" THEN "ok" ELSE "error")
              ELSE UNCHANGED result
    /\ UNCHANGED <<up, down, server, mutex, fetched>>

\* recv_raw: the reader task has ended and its channel is empty.
ReceiveFails(c) ==
    /\ client[c].alive /\ client[c].calling
    /\ client[c].inq = <<>> /\ ~client[c].reader
    /\ client' = [client EXCEPT ![c].calling = FALSE]
    /\ Returns(c, "error")
    /\ UNCHANGED <<up, down, server, mutex, fetched>>

Running(c) == client[c].alive /\ client[c].calling

\* The writer task takes a frame from its channel ...
TakeFrame(c) ==
    /\ Running(c) /\ client[c].writer
    /\ client[c].writing = <<>> /\ client[c].out # <<>>
    /\ client' = [client EXCEPT ![c].out = Tail(@),
                                ![c].writing = Encode(Head(client[c].out))]
    /\ UNCHANGED <<up, down, server, mutex, fetched, result>>

\* ... and writes it as the socket allows; to a closed peer it is lost.
WriteUp(c) ==
    /\ Running(c) /\ client[c].writer
    /\ client[c].writing # <<>>
    /\ ServerGone(c) \/ Len(up[c]) < SocketCap
    /\ client' = [client EXCEPT ![c].writing = Tail(@)]
    /\ up' = IF ServerGone(c) THEN up
             ELSE [up EXCEPT ![c] = Append(@, Head(client[c].writing))]
    /\ UNCHANGED <<down, server, mutex, fetched, result>>

\* A write error ends the writer task, and with it the channel it reads.
WriterFails(c) ==
    /\ Running(c) /\ client[c].writer
    /\ client[c].writing # <<>> /\ ServerGone(c)
    /\ client' = [client EXCEPT ![c].writer = FALSE, ![c].writing = <<>>,
                                ![c].out = <<>>]
    /\ UNCHANGED <<up, down, server, mutex, fetched, result>>

\* The reader task reads again only when no whole frame is left in its buffer.
ReadDown(c) ==
    /\ Running(c) /\ client[c].reader
    /\ ~HasPayload(client[c].inbuf)
    /\ \E n \in 1..Len(down[c]) :
           /\ client' = [client EXCEPT ![c].inbuf = @ \o SubSeq(down[c], 1, n)]
           /\ down' = [down EXCEPT ![c] = SubSeq(@, n + 1, Len(@))]
    /\ UNCHANGED <<up, server, mutex, fetched, result>>

\* It passes whole frames on; with the channel full it waits.
PassOn(c) ==
    /\ Running(c) /\ client[c].reader
    /\ HasPayload(client[c].inbuf)
    /\ Len(client[c].inq) < ChannelCap
    /\ client' = [client EXCEPT ![c].inq = Append(@, Payload(client[c].inbuf)),
                                ![c].inbuf = Advance(@)]
    /\ UNCHANGED <<up, down, server, mutex, fetched, result>>

\* End of file, or a connection reset that loses what was on the way.
ReaderEnds(c) ==
    /\ Running(c) /\ client[c].reader
    /\ ~HasPayload(client[c].inbuf)
    /\ ServerGone(c)
    /\ client' = [client EXCEPT ![c].reader = FALSE]
    /\ down' = [down EXCEPT ![c] = <<>>]
    /\ UNCHANGED <<up, server, mutex, fetched, result>>

\* The engine is dropped between two fetches, or its process ends at any time.
ClientEnds(c) ==
    /\ client[c].alive
    /\ client' = [client EXCEPT ![c].alive = FALSE, ![c].calling = FALSE]
    /\ UNCHANGED <<up, down, server, mutex, fetched, result>>

-------------------------------------------------------------------------------
(* netproc: handle_connection, one task per connection.                      *)

\* need_data: wait for bytes, as many as there are.
ServerRead(c) ==
    /\ server[c].pc = "read"
    /\ \E n \in 1..Len(up[c]) :
           /\ server' = [server EXCEPT ![c].buf = @ \o SubSeq(up[c], 1, n),
                                       ![c].pc = "parse"]
           /\ up' = [up EXCEPT ![c] = SubSeq(@, n + 1, Len(@))]
    /\ UNCHANGED <<client, down, mutex, fetched, result>>

\* Mutant of ServerReadsEnd: the end of the file is not looked for.
ServerReadsOn(c) ==
    /\ server[c].pc = "read"
    /\ up[c] = <<>> /\ ~client[c].alive
    /\ server' = [server EXCEPT ![c].pc = "parse"]
    /\ UNCHANGED <<client, up, down, mutex, fetched, result>>

\* End of file.  The task ends only if its buffer is empty.
ServerReadsEnd(c) ==
    /\ server[c].pc = "read"
    /\ up[c] = <<>> /\ ~client[c].alive
    /\ server' = [server EXCEPT ![c].pc = IF server[c].buf = <<>> THEN "gone"
                                          ELSE "parse"]
    /\ UNCHANGED <<client, up, down, mutex, fetched, result>>

ServerReadFails(c) ==
    /\ server[c].pc = "read" /\ ~client[c].alive
    /\ server' = [server EXCEPT ![c].pc = "gone"]
    /\ up' = [up EXCEPT ![c] = <<>>]
    /\ UNCHANGED <<client, down, mutex, fetched, result>>

\* The next command of the buffer, and a place in the queue of the mutex; or
\* back to reading.
ServerParse(c) ==
    /\ server[c].pc = "parse"
    /\ IF HasPayload(server[c].buf)
       THEN /\ server' = [server EXCEPT ![c].pc = "lock", ![c].buf = Advance(@),
                                        ![c].id = Payload(server[c].buf).id]
            /\ mutex' = Append(mutex, c)
       ELSE /\ server' = [server EXCEPT ![c].pc = "read"]
            /\ UNCHANGED mutex
    /\ UNCHANGED <<client, up, down, fetched, result>>

ServerLock(c) ==
    /\ server[c].pc = "lock"
    /\ Head(mutex) = c
    /\ server' = [server EXCEPT ![c].pc = "fetch"]
    /\ UNCHANGED <<client, up, down, mutex, fetched, result>>

\* Mutant of Events: the end of the request first.
EventsEndFirst(id, ok) ==
    IF ok THEN Encode([kind |-> "complete", id |-> id])
                 \o Encode([kind |-> "body", id |-> id])
    ELSE Encode([kind |-> "failed", id |-> id])

\* What is written for a request: the body first, then its end.
Events(id, ok) ==
    IF ok THEN Encode([kind |-> "body", id |-> id])
                 \o Encode([kind |-> "complete", id |-> id])
    ELSE Encode([kind |-> "failed", id |-> id])

\* NetworkClient::fetch answers or fails; its transport gives up after 20 s.
ServerFetch(c) ==
    /\ server[c].pc = "fetch"
    /\ fetched' = [fetched EXCEPT ![c] = Append(@, server[c].id)]
    /\ \E ok \in BOOLEAN :
           server' = [server EXCEPT ![c].pc = "write",
                                    ![c].toWrite = Events(server[c].id, ok)]
    /\ UNCHANGED <<client, up, down, mutex, result>>

\* The answer is written while the lock is held, as fast as the client reads.
ServerWrite(c) ==
    /\ server[c].pc = "write" /\ server[c].toWrite # <<>>
    /\ Len(down[c]) < SocketCap \/ ~client[c].alive
    /\ IF client[c].alive
       THEN /\ server' = [server EXCEPT ![c].toWrite = Tail(@)]
            /\ down' = [down EXCEPT ![c] = Append(@, Head(server[c].toWrite))]
       ELSE /\ server' = [server EXCEPT ![c].toWrite = <<>>]
            /\ UNCHANGED down
    /\ UNCHANGED <<client, up, mutex, fetched, result>>

\* Mutant of ServerUnlock: the lock stays with a task whose client has ended.
ServerUnlockForLiving(c) ==
    /\ server[c].pc = "write" /\ server[c].toWrite = <<>>
    /\ server' = [server EXCEPT ![c].pc = "parse"]
    /\ mutex' = IF client[c].alive THEN Tail(mutex) ELSE mutex
    /\ UNCHANGED <<client, up, down, fetched, result>>

\* The guard of the mutex is dropped at the end of the arm; need_data is false.
ServerUnlock(c) ==
    /\ server[c].pc = "write" /\ server[c].toWrite = <<>>
    /\ server' = [server EXCEPT ![c].pc = "parse"]
    /\ mutex' = Tail(mutex)
    /\ UNCHANGED <<client, up, down, fetched, result>>

\* The process dies, and every connection with it.
NetprocDies ==
    /\ \E c \in Conns : ~ServerGone(c)
    /\ server' = [c \in Conns |->
                     [pc |-> "gone", buf |-> <<>>, id |-> 0, toWrite |-> <<>>]]
    /\ up' = [c \in Conns |-> <<>>]
    /\ mutex' = <<>>
    /\ UNCHANGED <<client, down, fetched, result>>

-------------------------------------------------------------------------------

Caller(c) == Receive(c) \/ ReceiveFails(c)
WriterTask(c) == TakeFrame(c) \/ WriteUp(c) \/ WriterFails(c)
ReaderTask(c) == ReadDown(c) \/ PassOn(c) \/ ReaderEnds(c)
ServerTask(c) ==
    \/ ServerRead(c) \/ ServerReadsEnd(c) \/ ServerReadFails(c)
    \/ ServerParse(c) \/ ServerLock(c) \/ ServerFetch(c)
    \/ ServerWrite(c) \/ ServerUnlock(c)

Next ==
    \/ \E c \in Conns :
           \/ Fetch(c) \/ ClientEnds(c)
           \/ Caller(c) \/ WriterTask(c) \/ ReaderTask(c) \/ ServerTask(c)
    \/ NetprocDies

Spec == Init /\ [][Next]_vars

\* The tasks of both processes run when they can; whether a page is asked for,
\* an engine dropped or a process ended is nobody's duty.
Fairness ==
    \A c \in Conns :
        /\ WF_vars(Caller(c))
        /\ WF_vars(WriterTask(c))
        /\ WF_vars(ReaderTask(c))
        /\ WF_vars(ServerTask(c))

FairSpec == Spec /\ Fairness

-------------------------------------------------------------------------------
(* Properties                                                                *)

Client ==
    [alive : BOOLEAN, next : 1..(MaxFetches + 1), calling : BOOLEAN,
     body : Seq(1..MaxFetches), out : Seq(Frame), writing : Seq(Unit),
     writer : BOOLEAN, inbuf : Seq(Unit), inq : Seq(Frame), reader : BOOLEAN]

Server ==
    [pc : {"read", "parse", "lock", "fetch", "write", "gone"},
     buf : Seq(Unit), id : 0..MaxFetches, toWrite : Seq(Unit)]

Result ==
    [outcome : {"none", "ok", "error"}, id : 0..MaxFetches,
     body : Seq(1..MaxFetches)]

\* The type invariant.  A task that fetches works on a request.
TypeOK ==
    /\ client \in [Conns -> Client]
    /\ up \in [Conns -> Seq(Unit)]
    /\ down \in [Conns -> Seq(Unit)]
    /\ server \in [Conns -> Server]
    /\ \A c \in Conns : server[c].pc \in {"lock", "fetch"} => server[c].id # 0
    /\ mutex \in Seq(Conns)
    /\ fetched \in [Conns -> Seq(1..MaxFetches)]
    /\ result \in [Conns -> Result]

\* However reads cut the frames, whatever waits or dies, a fetch that succeeds
\* returns the whole body of its own request (netproc.rs, fetch), and a request
\* goes to the network at most once: no frame is parsed twice.
AnswerIsOwn ==
    \A c \in Conns :
        /\ IsInjective(fetched[c])
        /\ result[c].outcome = "ok" =>
              /\ result[c].body = <<result[c].id>>
              /\ Contains(fetched[c], result[c].id)

\* A fetch that returned leaves no event, frame or part of a frame behind that
\* the next one would read, as long as netproc lives.
NothingLeft ==
    \A c \in Conns :
        client[c].alive /\ ~client[c].calling /\ ~ServerGone(c) =>
            /\ <<>> = client[c].out \o client[c].inq
            /\ <<>> = client[c].writing \o client[c].inbuf \o up[c] \o down[c]
                        \o server[c].buf \o server[c].toWrite

\* A fetch has its own answer, whole, and has read all of it.
FetchIsWhole == AnswerIsOwn /\ NothingLeft

\* The tasks of netproc use the NetworkClient one at a time, and one that has
\* died holds no place in the queue.
OneNetworkUser ==
    /\ IsInjective(mutex)
    /\ \A c \in Conns :
           /\ server[c].pc \in {"fetch", "write"} => mutex # <<>> /\ Head(mutex) = c
           /\ Contains(mutex, c) => server[c].pc \in {"lock", "fetch", "write"}

\* A fetch returns, with an answer or an error, when netproc dies and when
\* another client dies or stops reading in the middle of its answer.
FetchReturns == \A c \in Conns : client[c].calling ~> ~client[c].calling

\* The client ended between two frames, not inside one.
EndedWhole(c) ==
    /\ ~client[c].alive
    /\ (Len(up[c]) + Len(server[c].buf)) % 2 = 0

\* netproc lets go of a connection whose client has ended; after half a frame
\* it would not (ServerReadsEnd goes back to reading for ever).
HandlerEnds == \A c \in Conns : EndedWhole(c) ~> ServerGone(c)
===============================================================================
