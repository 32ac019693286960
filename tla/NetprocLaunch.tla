---------------------------- MODULE NetprocLaunch -----------------------------
(***************************************************************************)
(* How a new engine worker gets its network: the window starts netproc,    *)
(* a thread reads the child's stderr for its address, the window polls the *)
(* child and the thread for at most 8 s, and the worker connects, or uses  *)
(* a network client of its own.                                            *)
(*                                                                         *)
(* netproc announces itself with eprintln!, and stderr is not buffered:    *)
(* each fragment of the formatted line is a write of its own.              *)
(***************************************************************************)
EXTENDS Naturals, SequencesExt

CONSTANTS
    MaxLaunches  \* bound on the workers the window creates

VARIABLES
    child,    \* per launch, the process: "none", "running" or "exited"
    unsaid,   \* per launch, the writes of the announcement still to come
    pipe,     \* per launch, what was written to stderr and not read
    reader,   \* per launch, the thread: "none", "reading" or "done"
    output,   \* per launch, what the thread has read
    told,     \* per launch, the channel from the thread to the window
    polling,  \* per launch, whether the window waits for the address
    engine,   \* per launch, what the worker builds its engine with
    launches  \* the launches so far

vars == <<child, unsaid, pipe, reader, output, told, polling, engine, launches>>

Launches == 1..MaxLaunches

\* The writes of eprintln!("NETPROC_ADDR={}", addr).
Announcement == <<"key", "host", "port", "newline">>
Address == <<"host", "port">>

Init ==
    /\ child = [l \in Launches |-> "none"]
    /\ unsaid = [l \in Launches |-> Announcement]
    /\ pipe = [l \in Launches |-> <<>>]
    /\ reader = [l \in Launches |-> "none"]
    /\ output = [l \in Launches |-> <<>>]
    /\ told = [l \in Launches |-> <<>>]
    /\ polling = [l \in Launches |-> FALSE]
    /\ engine = [l \in Launches |-> "none"]
    /\ launches = 0

-------------------------------------------------------------------------------
(* try_spawn_netproc, on the thread of the window.                           *)

\* The window waits for one launch before it can start the next.
Launch ==
    /\ launches < MaxLaunches
    /\ \A l \in Launches : ~polling[l]
    /\ launches' = launches + 1
    /\ \/ /\ child' = [child EXCEPT ![launches'] = "running"]
          /\ reader' = [reader EXCEPT ![launches'] = "reading"]
          /\ polling' = [polling EXCEPT ![launches'] = TRUE]
          /\ UNCHANGED engine
       \/ \* no binary, or it does not start
          /\ engine' = [engine EXCEPT ![launches'] = "fallback"]
          /\ UNCHANGED <<child, reader, polling>>
    /\ UNCHANGED <<unsaid, pipe, output, told>>

\* Mutant of GiveUp: the window waits as long as the child runs.
GiveUpWhenDead(l) ==
    /\ polling[l] /\ child[l] = "exited"
    /\ polling' = [polling EXCEPT ![l] = FALSE]
    /\ engine' = [engine EXCEPT ![l] = "fallback"]
    /\ UNCHANGED <<child, unsaid, pipe, reader, output, told, launches>>

\* The loop ends without an address: the child has exited, whatever the thread
\* sent before that, or 8 s have passed.  The child is not stopped.
GiveUp(l) ==
    /\ polling[l]
    /\ polling' = [polling EXCEPT ![l] = FALSE]
    /\ engine' = [engine EXCEPT ![l] = "fallback"]
    /\ UNCHANGED <<child, unsaid, pipe, reader, output, told, launches>>

\* try_wait finds the child running, try_recv the address.
TakeAddress(l) ==
    /\ polling[l]
    /\ child[l] = "running" /\ told[l] # <<>>
    /\ polling' = [polling EXCEPT ![l] = FALSE]
    /\ engine' = [engine EXCEPT ![l] = "connect"]
    /\ UNCHANGED <<child, unsaid, pipe, reader, output, told, launches>>

\* What follows the key in the output, up to the end of the line or, when the
\* line has no end yet, up to the end of the output.
AddressIn(text) == SelectSeq(text, LAMBDA piece : piece \notin {"key", "newline"})

\* The thread reads what there is; with the key in it, it sends the address
\* and returns, which closes the pipe.
ReadOutput(l) ==
    /\ reader[l] = "reading"
    /\ \E n \in 1..Len(pipe[l]) :
           LET text == output[l] \o SubSeq(pipe[l], 1, n)
           IN  /\ output' = [output EXCEPT ![l] = text]
               /\ IF Contains(text, "key")
                  THEN /\ told' = [told EXCEPT ![l] = <<AddressIn(text)>>]
                       /\ reader' = [reader EXCEPT ![l] = "done"]
                       /\ pipe' = [pipe EXCEPT ![l] = <<>>]
                  ELSE /\ pipe' = [pipe EXCEPT ![l] = SubSeq(@, n + 1, Len(@))]
                       /\ UNCHANGED <<told, reader>>
    /\ UNCHANGED <<child, unsaid, polling, engine, launches>>

ReadEnd(l) ==
    /\ reader[l] = "reading"
    /\ pipe[l] = <<>> /\ child[l] = "exited"
    /\ reader' = [reader EXCEPT ![l] = "done"]
    /\ UNCHANGED <<child, unsaid, pipe, output, told, polling, engine, launches>>

-------------------------------------------------------------------------------
(* The child, and the worker of the engine.                                  *)

\* One write of the announcement; into a closed pipe it is an error, and
\* eprintln! panics.
Announce(l) ==
    /\ child[l] = "running" /\ unsaid[l] # <<>>
    /\ unsaid' = [unsaid EXCEPT ![l] = Tail(@)]
    /\ IF reader[l] = "reading"
       THEN /\ pipe' = [pipe EXCEPT ![l] = Append(@, Head(unsaid[l]))]
            /\ UNCHANGED child
       ELSE /\ child' = [child EXCEPT ![l] = "exited"]
            /\ UNCHANGED pipe
    /\ UNCHANGED <<reader, output, told, polling, engine, launches>>

\* It cannot bind, or dies later.
ChildExits(l) ==
    /\ child[l] = "running"
    /\ child' = [child EXCEPT ![l] = "exited"]
    /\ UNCHANGED <<unsaid, pipe, reader, output, told, polling, engine, launches>>

\* with_netproc_async: only the whole address of a live netproc connects.
Connect(l) ==
    /\ engine[l] = "connect"
    /\ engine' = [engine EXCEPT ![l] =
           IF told[l] = <<Address>> /\ child[l] = "running" THEN "netproc"
           ELSE "fallback"]
    /\ UNCHANGED <<child, unsaid, pipe, reader, output, told, polling, launches>>

\* secure_networked: a client in this process, unless it cannot be made
\* (BrowserShell has the worker that answers every command with that error).
FallBack(l) ==
    /\ engine[l] = "fallback"
    /\ \E built \in {"inprocess", "failed"} :
           engine' = [engine EXCEPT ![l] = built]
    /\ UNCHANGED <<child, unsaid, pipe, reader, output, told, polling, launches>>

-------------------------------------------------------------------------------

WindowStep(l) == GiveUp(l) \/ TakeAddress(l)
ReaderStep(l) == ReadOutput(l) \/ ReadEnd(l)
WorkerStep(l) == Connect(l) \/ FallBack(l)

Next ==
    \/ Launch
    \/ \E l \in Launches :
           \/ WindowStep(l) \/ ReaderStep(l) \/ WorkerStep(l)
           \/ Announce(l) \/ ChildExits(l)

Spec == Init /\ [][Next]_vars

\* The window and its threads run; the child may hang.
Fairness ==
    \A l \in Launches :
        WF_vars(WindowStep(l)) /\ WF_vars(ReaderStep(l)) /\ WF_vars(WorkerStep(l))

FairSpec == Spec /\ Fairness

-------------------------------------------------------------------------------
(* Properties                                                                *)

\* Every worker gets an engine or an error to answer with, even when the child
\* hangs, dies or is found dead after it sent its address (app.rs, spawn).
EngineReady ==
    \A l \in Launches :
        launches >= l ~> engine[l] \in {"netproc", "inprocess", "failed"}

\* What the comment of try_spawn_netproc says of the thread: it collects the
\* line.  What it sends would then be the whole address.
AddressIsWhole ==
    \A l \in Launches : told[l] # <<>> => told[l] = <<Address>>
===============================================================================
