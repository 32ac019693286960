----------------------------- MODULE WebSocket -----------------------------
(***************************************************************************)
(* One WebSocket of a page: the connection task of fortrust-net             *)
(* (websocket.rs) with its reader and its writer, the two bounded channels  *)
(* between them and the engine's thread, and the object the script holds    *)
(* (fortrust-js, bindings/websocket.rs).                                    *)
(*                                                                         *)
(* The tasks are tasks of the current-thread runtime of the engine: they    *)
(* run only while that thread runs no script.                               *)
(***************************************************************************)
EXTENDS Integers, Sequences, SequencesExt

CONSTANTS
    Capacity,   \* of the channels, 64 in the code
    MaxSent,    \* bound: messages of the peer
    MaxCommands \* bound: calls of send and close

ASSUME SocketAssumption ==
    /\ Capacity \in Nat \ {0}
    /\ {MaxSent, MaxCommands} \subseteq Nat

VARIABLES
    thread,     \* of the engine: idle (the tasks run), script, or stuck in a send
    task,       \* connecting, running, closing, ended
    reader,     \* the task that reads the connection is running
    writer,     \* the task that writes to it is running
    peer,       \* up or down; what it sent and the reader has not read is kept
    unread,     \* frames of the peer under way: message numbers, and "close"
    sent,       \* how many messages the peer has sent
    closeSent,  \* a close frame was written: the library refuses further frames
    commands,   \* the channel to the writer
    issued,     \* how many commands scripts have issued
    events,     \* the channel to the engine's thread
    known,      \* the socket is registered (WS_CLIENTS, WS_OBJECTS)
    state,      \* readyState
    batch,      \* events a poll has taken and not yet dispatched
    closing,    \* the poll has met a Close event
    received    \* history: the messages dispatched to the script

netVars == <<task, reader, writer, peer, unread, sent, closeSent>>
pageVars == <<known, state, batch, closing, received>>
socketVars == <<thread, commands, issued, events, netVars, pageVars>>

CONNECTING == 0
OPEN == 1
CLOSING == 2
CLOSED == 3

\* Frames, commands and events, a message with its number.
Message(n) == <<"message", n>>
Opened == <<"open", 0>>
Failed == <<"error", 0>>
Closed == <<"close", 0>>
Controls == {Opened, Failed, Closed}

SocketInit ==
    /\ thread = "script"
    /\ task = "connecting" /\ reader = FALSE /\ writer = FALSE
    /\ peer = "up" /\ unread = <<>> /\ sent = 0 /\ closeSent = FALSE
    /\ commands = <<>> /\ issued = 0
    /\ events = <<>>
    /\ known = TRUE /\ state = CONNECTING
    /\ batch = <<>> /\ closing = FALSE
    /\ received = <<>>

TasksRun == thread = "idle"

\* event_tx.send: waits for room, and is an error once the socket is forgotten.
MayTell == known => Len(events) < Capacity
Tell(event) == events' = IF known THEN Append(events, event) ELSE events

\* connect_async within 15 s: the task opens the socket and starts the other two.
Connect ==
    /\ TasksRun /\ task = "connecting"
    /\ task' = "running" /\ reader' = TRUE /\ writer' = TRUE
    /\ Tell(Opened)
    /\ UNCHANGED <<thread, peer, unread, sent, closeSent, commands, issued, pageVars>>

\* No connection, or none in time: an Error event and no Close event, so the
\* object stays CONNECTING and registered.
ConnectFails ==
    /\ TasksRun /\ task = "connecting"
    /\ task' = "ended" /\ peer' = "down"
    /\ Tell(Failed)
    /\ UNCHANGED <<thread, reader, writer, unread, sent, closeSent, commands,
                   issued, pageVars>>

PeerSends ==
    /\ task # "connecting" /\ peer = "up" /\ sent < MaxSent
    /\ sent' = sent + 1
    /\ unread' = Append(unread, Message(sent'))
    /\ UNCHANGED <<thread, task, reader, writer, peer, closeSent, commands, issued,
                   events, pageVars>>

\* The peer closes the connection, with a close frame or without.
PeerEnds ==
    /\ task # "connecting" /\ peer = "up"
    /\ peer' = "down"
    /\ unread' \in {unread, Append(unread, Closed)}
    /\ UNCHANGED <<thread, task, reader, writer, sent, closeSent, commands, issued,
                   events, pageVars>>

\* A mutant: a message that finds the channel full is dropped (try_send).
ReadOrDrop ==
    /\ TasksRun /\ reader /\ unread # <<>>
    /\ unread' = Tail(unread)
    /\ IF MayTell THEN Tell(Head(unread)) ELSE events' = events
    /\ UNCHANGED <<thread, task, reader, writer, peer, sent, closeSent, commands,
                   issued, pageVars>>

\* The reader: one frame; it waits for room in the channel.
Read ==
    /\ TasksRun /\ reader /\ unread # <<>>
    /\ MayTell
    /\ unread' = Tail(unread)
    /\ Tell(Head(unread))
    /\ UNCHANGED <<thread, task, reader, writer, peer, sent, closeSent, commands,
                   issued, pageVars>>

\* The stream ends, or nobody receives the events any more.
ReaderEnds ==
    /\ TasksRun /\ reader
    /\ (peer = "up" \/ unread # <<>>) => ~known
    /\ reader' = FALSE
    /\ UNCHANGED <<thread, task, writer, peer, unread, sent, closeSent, commands,
                   issued, events, pageVars>>

\* The writer: one command.
Write ==
    /\ TasksRun /\ writer /\ commands # <<>> /\ ~closeSent
    /\ commands' = Tail(commands)
    /\ closeSent' = (Head(commands) = Closed)
    /\ UNCHANGED <<thread, task, reader, writer, peer, unread, sent, issued, events,
                   pageVars>>

\* The write is an error: an Error event, and the commands are dropped.
WriterFails ==
    /\ TasksRun /\ writer /\ commands # <<>>
    /\ closeSent \/ peer = "down"
    /\ MayTell
    /\ Tell(Failed)
    /\ writer' = FALSE
    /\ commands' = <<>>
    /\ UNCHANGED <<thread, task, reader, peer, unread, sent, closeSent, issued, pageVars>>

\* select!: one of the two has ended, the other goes on by itself.
TaskStopsWaiting ==
    /\ TasksRun /\ task = "running"
    /\ ~reader \/ ~writer
    /\ task' = "closing"
    /\ UNCHANGED <<thread, reader, writer, peer, unread, sent, closeSent, commands,
                   issued, events, pageVars>>

TaskEnds ==
    /\ TasksRun /\ task = "closing"
    /\ MayTell
    /\ Tell(Closed)
    /\ task' = "ended"
    /\ UNCHANGED <<thread, reader, writer, peer, unread, sent, closeSent, commands,
                   issued, pageVars>>

-----------------------------------------------------------------------------

\* The engine runs a script of the page.
ScriptRuns ==
    /\ thread = "idle"
    /\ thread' = "script"
    /\ UNCHANGED <<commands, issued, events, netVars, pageVars>>

\* The writer's end of the channel is there while the task connects or writes.
Deaf == task # "connecting" /\ ~writer

\* block_on(c.send(..)) in a script: with a full channel it waits for a task
\* of its own thread, for ever.
Issue(command) ==
    /\ thread = "script"
    /\ issued < MaxCommands
    /\ issued' = issued + 1
    /\ commands' = IF known /\ ~Deaf /\ Len(commands) < Capacity
                   THEN Append(commands, command) ELSE commands
    /\ thread' = IF known /\ ~Deaf /\ Len(commands) = Capacity
                 THEN "stuck" ELSE thread
    /\ UNCHANGED <<events, netVars, known, batch, closing, received>>

Send ==
    /\ Issue(Message(issued))
    /\ UNCHANGED state

\* close, whatever the state was: also CONNECTING, and CLOSED in onclose.
Close ==
    /\ Issue(Closed)
    /\ state' = IF known THEN CLOSING ELSE state

\* poll_websocket_events takes all there is.
Poll ==
    /\ thread = "idle" /\ known /\ events # <<>>
    /\ thread' = "script"
    /\ batch' = events
    /\ closing' = Contains(events, Closed)
    /\ events' = <<>>
    /\ UNCHANGED <<commands, issued, netVars, known, state, received>>

\* One event is dispatched; what its handlers do are the actions that follow.
Dispatch ==
    /\ thread = "script" /\ batch # <<>>
    /\ state' = CASE Head(batch) = Opened -> OPEN
                  [] Head(batch) = Closed -> CLOSED
                  [] OTHER -> state
    /\ received' = IF Head(batch) \in Controls THEN received
                   ELSE Append(received, Head(batch))
    /\ batch' = Tail(batch)
    /\ UNCHANGED <<thread, commands, issued, events, netVars, known, closing>>

\* The script ends, or the poll, which then forgets a closed socket and with
\* it the events that came since.
ScriptReturns ==
    /\ thread = "script" /\ batch = <<>>
    /\ thread' = "idle"
    /\ known' = (known /\ ~closing)
    /\ closing' = FALSE
    /\ events' = IF closing THEN <<>> ELSE events
    /\ UNCHANGED <<commands, issued, netVars, state, batch, received>>

NetStep ==
    \/ Connect \/ ConnectFails \/ Read \/ ReaderEnds \/ Write \/ WriterFails
    \/ TaskStopsWaiting \/ TaskEnds

SocketNext ==
    \/ PeerSends \/ PeerEnds \/ NetStep
    \/ ScriptRuns \/ Send \/ Close \/ Poll \/ Dispatch \/ ScriptReturns

SocketSpec == SocketInit /\ [][SocketNext]_socketVars

-----------------------------------------------------------------------------

\* The messages among frames or events, and that each comes after those before it.
Messages(s) == ToSet(s) \ Controls
InSequence(s) ==
    \A i, j \in DOMAIN s : i < j /\ s[i] \notin Controls /\ s[j] \notin Controls => s[i][2] < s[j][2]

\* While the socket is registered every message of the peer is somewhere on its
\* way to the script, once and in the order in which it was sent, however full
\* the channel is and whatever a handler or an earlier batch did.
MessagesKept ==
    known => LET way == received \o batch \o events \o unread
             IN  Messages(way) = {Message(i) : i \in 1 .. sent} /\ InSequence(way)

=============================================================================
