--------------------------- MODULE DownloadManager ---------------------------
(***************************************************************************)
(* DownloadManager of fortrust-chrome.  The window starts, pauses, resumes *)
(* and removes downloads; every start and every resume spawns a thread (a  *)
(* worker) that reads the recorded progress, asks the server for the rest, *)
(* and appends what it reads to a file.  A worker is told to stop with a   *)
(* flag that it reads once per block.  The unfinished downloads are saved  *)
(* on every frame and resumed when the program starts again.               *)
(*                                                                         *)
(* A block read at once (65536 bytes at most) is a chunk, and a resource   *)
(* is the sequence of its chunks 1 .. Size.  total_bytes and the speed are *)
(* only displayed and are left out.                                        *)
(***************************************************************************)
EXTENDS Naturals, Sequences, FiniteSets, FiniteSetsExt

CONSTANTS
    Names,          \* file names; a url and a file belong to each
    Size,           \* chunks of a resource
    TakeLimit,      \* chunks a worker reads at most (1 GB in the code)
    MaxWorkers,     \* bound on the threads ever spawned
    FaultSets       \* what environments may do, besides dropping connections

ASSUME SizeAssumption == Size \in Nat \ {0} /\ TakeLimit \in Nat /\ MaxWorkers \in Nat

FaultKinds ==
    {"impatient",       \* a download is resumed while its last worker still runs
     "ignoresRange",    \* the server answers 200 to a Range request
     "errorPage",       \* the server answers with an error page
     "writeError",      \* the disk is full
     "sharedName",      \* two downloads have the same file name
     "restart"}         \* the program ends and starts again

ASSUME FaultsAssumption == FaultSets \subseteq SUBSET FaultKinds

VARIABLES
    faults,         \* the environment of this execution, one of FaultSets
    entries,        \* the downloads shown: id -> [name, status, done]
    nextId,
    worker,         \* every thread ever spawned
    handle,         \* id -> the worker whose flag pause and remove set
    file,           \* name -> the chunks on disk
    saved,          \* the stored setting chrome.downloads.state: id -> [name, done]
    pending         \* history: the ids of the unfinished downloads at the last save

vars == <<faults, entries, nextId, worker, handle, file, saved, pending>>

Workers  == 1 .. MaxWorkers
Ids      == 1 .. MaxWorkers
Status   == {"Queued", "Downloading", "Paused", "Completed", "Failed"}
Resource == [k \in 1 .. Size |-> k]
Page     == <<0>>           \* an error page, a chunk of nobody's resource
Live(w)  == worker[w].pc \notin {"idle", "done"}
LiveFor(id) == {w \in Workers : Live(w) /\ worker[w].id = id}

Unfinished(ents) ==
    {id \in DOMAIN ents : ents[id].status \in {"Queued", "Downloading", "Paused"}}

NoFunction == [id \in {} |-> {}]

NoName == "no name"
Idle == [pc |-> "idle", id |-> 0, name |-> NoName,
         start |-> 0, dl |-> 0, rest |-> <<>>, cancel |-> FALSE]

Init ==
    /\ faults \in FaultSets
    /\ entries = NoFunction
    /\ nextId = 1
    /\ worker = [w \in Workers |-> Idle]
    /\ handle = NoFunction
    /\ file = [n \in Names |-> <<>>]
    /\ saved = NoFunction
    /\ pending = {}

-----------------------------------------------------------------------------
(* The window.  Each operation is one step: it holds the lock of the list  *)
(* while it changes it, and the flags are read by workers only.            *)

Spawns(ids) == Cardinality({w \in Workers : worker[w].pc # "idle"}) + Cardinality(ids)

\* The threads after threads are spawned for the downloads ids of ents.
Spawned(threads, ents, ids) ==
    LET used    == Cardinality({w \in Workers : worker[w].pc # "idle"})
        slot(i) == used + Cardinality({j \in ids : j <= i})
    IN  [w \in Workers |->
            IF \E i \in ids : w = slot(i)
            THEN LET i == CHOOSE i \in ids : w = slot(i)
                 IN  [Idle EXCEPT !.pc = "start", !.id = i, !.name = ents[i].name]
            ELSE threads[w]]

NewestOf(threads, id) == Max({w \in Workers : threads[w].id = id})

Put(ents, id, entry) ==
    [i \in DOMAIN ents \cup {id} |-> IF i = id THEN entry ELSE ents[i]]

Cancelled(id) ==
    IF id \in DOMAIN handle THEN [worker EXCEPT ![handle[id]].cancel = TRUE] ELSE worker

\* start_download of a new download.
Start(n) ==
    /\ Spawns({nextId}) <= MaxWorkers
    /\ "sharedName" \in faults \/ n \notin {worker[w].name : w \in Workers}
    /\ entries' = Put(entries, nextId, [name |-> n, status |-> "Queued", done |-> 0])
    /\ worker' = Spawned(worker, entries', {nextId})
    /\ handle' = Put(handle, nextId, NewestOf(worker', nextId))
    /\ nextId' = nextId + 1
    /\ UNCHANGED <<file, saved, pending>>

\* The sidebar offers Pause for a download that was Downloading when the frame
\* began; a worker may have changed that since.
Pause(id) ==
    /\ entries[id].status # "Queued"
    /\ worker' = Cancelled(id)
    /\ entries' = IF entries[id].status = "Downloading"
                  THEN [entries EXCEPT ![id].status = "Paused"]
                  ELSE entries
    /\ UNCHANGED <<nextId, handle, file, saved, pending>>

\* The old handle is dropped, whether its worker has ended or not.
Resume(id) ==
    /\ entries[id].status \in {"Paused", "Failed"}
    /\ "impatient" \in faults \/ LiveFor(id) = {}
    /\ Spawns({id}) <= MaxWorkers
    /\ entries' = [entries EXCEPT ![id].status = "Queued"]
    /\ worker' = Spawned(worker, entries, {id})
    /\ handle' = Put(handle, id, NewestOf(worker', id))
    /\ UNCHANGED <<nextId, file, saved, pending>>

Remove(id) ==
    /\ worker' = Cancelled(id)
    /\ handle' = [i \in DOMAIN handle \ {id} |-> handle[i]]
    /\ entries' = [i \in DOMAIN entries \ {id} |-> entries[i]]
    /\ UNCHANGED <<nextId, file, saved, pending>>

\* At the end of every frame.  Nothing is stored when nothing is unfinished.
Save ==
    LET active == Unfinished(entries)
    IN  /\ pending' = active
        /\ saved' = IF active = {} THEN saved
                    ELSE [i \in active |->
                            [name |-> entries[i].name, done |-> entries[i].done]]
        /\ UNCHANGED <<entries, nextId, worker, handle, file>>

\* The program ends at any moment, its threads with it, and starts again: what
\* was saved is loaded as Paused and all of it resumed.
Restart ==
    LET ids    == DOMAIN saved
        loaded == [i \in ids |->
                    [name |-> saved[i].name, status |-> "Queued", done |-> saved[i].done]]
        killed == [w \in Workers |-> IF Live(w) THEN [worker[w] EXCEPT !.pc = "done"]
                                                ELSE worker[w]]
    IN  /\ "restart" \in faults
        /\ Spawns(ids) <= MaxWorkers
        /\ entries' = loaded
        /\ nextId' = IF ids = {} THEN 1 ELSE Max(ids) + 1
        /\ worker' = Spawned(killed, loaded, ids)
        /\ handle' = [i \in ids |-> NewestOf(worker', i)]
        /\ UNCHANGED <<file, saved, pending>>

-----------------------------------------------------------------------------
(* A worker.                                                               *)

\* The entry of worker w, when it still exists, gets status s and progress d.
Report(w, s, d) ==
    entries' = IF worker[w].id \in DOMAIN entries
               THEN [entries EXCEPT ![worker[w].id].status = s, ![worker[w].id].done = d]
               ELSE entries

StatusOf(w) == IF worker[w].id \in DOMAIN entries THEN entries[worker[w].id].status ELSE "Queued"
DoneOf(w)   == IF worker[w].id \in DOMAIN entries THEN entries[worker[w].id].done ELSE 0

Goto(w, pc) == worker' = [worker EXCEPT ![w].pc = pc]

ReadProgress(w) ==
    /\ worker[w].pc = "start"
    /\ worker' = [worker EXCEPT ![w].pc = "sent", ![w].start = DoneOf(w)]
    /\ UNCHANGED <<entries, nextId, handle, file, saved, pending>>

\* What the server may send to a request that starts at chunk d: an answer to
\* a Range request beyond the end is an error with an empty body at best.
Bodies(d) ==
    {SubSeq(Resource, d + 1, Size)}
      \cup (IF d > 0 /\ "ignoresRange" \in faults THEN {Resource} ELSE {})
      \cup (IF "errorPage" \in faults THEN {Page} ELSE {})

\* No status code is looked at, nor the flag: the entry is Downloading.
Respond(w) ==
    /\ worker[w].pc = "sent"
    /\ \E body \in Bodies(worker[w].start) :
            worker' = [worker EXCEPT ![w].pc = "open", ![w].dl = worker[w].start,
                        ![w].rest = SubSeq(body, 1, Min({Len(body), TakeLimit}))]
    /\ Report(w, "Downloading", DoneOf(w))
    /\ UNCHANGED <<nextId, handle, file, saved, pending>>

RequestFails(w) ==
    /\ worker[w].pc = "sent"
    /\ Goto(w, "done")
    /\ Report(w, "Failed", worker[w].start)
    /\ UNCHANGED <<nextId, handle, file, saved, pending>>

\* Mutant of OpenFile: every attempt creates the file anew.
OpenFileTruncating(w) ==
    /\ worker[w].pc = "open"
    /\ Goto(w, "loop")
    /\ file' = [file EXCEPT ![worker[w].name] = <<>>]
    /\ UNCHANGED <<entries, nextId, handle, saved, pending>>

\* A download that starts from nothing truncates the file, others append to it.
OpenFile(w) ==
    /\ worker[w].pc = "open"
    /\ Goto(w, "loop")
    /\ file' = IF worker[w].start > 0 THEN file ELSE [file EXCEPT ![worker[w].name] = <<>>]
    /\ UNCHANGED <<entries, nextId, handle, saved, pending>>

\* Mutant of OpenFails: the failure is not reported.
OpenFailsSilently(w) ==
    /\ worker[w].pc = "open"
    /\ Goto(w, "done")
    /\ UNCHANGED <<entries, nextId, handle, file, saved, pending>>

OpenFails(w) ==
    /\ worker[w].pc = "open"
    /\ Goto(w, "done")
    /\ Report(w, "Failed", DoneOf(w))
    /\ UNCHANGED <<nextId, handle, file, saved, pending>>

\* Mutant of CheckCancel: the thread ends without a word.
CheckCancelSilently(w) ==
    /\ worker[w].pc = "loop"
    /\ Goto(w, IF worker[w].cancel THEN "done" ELSE "read")
    /\ UNCHANGED <<entries, nextId, handle, file, saved, pending>>

CheckCancel(w) ==
    /\ worker[w].pc = "loop"
    /\ IF worker[w].cancel
       THEN Goto(w, "done") /\ Report(w, "Paused", worker[w].dl)
       ELSE Goto(w, "read") /\ UNCHANGED entries
    /\ UNCHANGED <<nextId, handle, file, saved, pending>>

\* The file of worker w once it has written a chunk: one opened for appending
\* grows, one created from nothing is written where this worker is, over what
\* other threads have put there.
Written(w) ==
    LET chunks == file[worker[w].name]
        pos    == (IF worker[w].start > 0 THEN Len(chunks) ELSE worker[w].dl) + 1
    IN  [file EXCEPT ![worker[w].name] =
            [k \in 1 .. Max({Len(chunks), pos}) |->
                IF k = pos THEN Head(worker[w].rest)
                ELSE IF k <= Len(chunks) THEN chunks[k] ELSE 0]]

\* A chunk arrives and is written; the progress is recorded every 500 ms only.
ReadChunk(w) ==
    LET dl == worker[w].dl + 1
    IN  /\ worker[w].pc = "read" /\ worker[w].rest # <<>>
        /\ worker' = [worker EXCEPT ![w].pc = "loop", ![w].dl = dl,
                                    ![w].rest = Tail(worker[w].rest)]
        /\ file' = Written(w)
        /\ UNCHANGED entries \/ Report(w, StatusOf(w), dl)
        /\ UNCHANGED <<nextId, handle, saved, pending>>

\* Part of the chunk may have reached the disk; the progress is not recorded.
WriteFails(w) ==
    /\ "writeError" \in faults
    /\ worker[w].pc = "read" /\ worker[w].rest # <<>>
    /\ Goto(w, "done")
    /\ Report(w, "Failed", DoneOf(w))
    /\ UNCHANGED file \/ file' = Written(w)
    /\ UNCHANGED <<nextId, handle, saved, pending>>

\* A connection that timed out or was reset pauses the download, other errors
\* of the read fail it.
ReadFails(w) ==
    /\ worker[w].pc = "read"
    /\ Goto(w, "done")
    /\ \E s \in {"Paused", "Failed"} : Report(w, s, worker[w].dl)
    /\ UNCHANGED <<nextId, handle, file, saved, pending>>

\* Mutant of Finish: the status is not looked at.
FinishAnyway(w) ==
    /\ worker[w].pc = "read" /\ worker[w].rest = <<>>
    /\ Goto(w, "done")
    /\ Report(w, "Completed", worker[w].dl)
    /\ UNCHANGED <<nextId, handle, file, saved, pending>>

\* The end of the body: Completed, unless the entry was paused meanwhile.
Finish(w) ==
    /\ worker[w].pc = "read" /\ worker[w].rest = <<>>
    /\ Goto(w, "done")
    /\ Report(w, IF StatusOf(w) = "Downloading" THEN "Completed" ELSE StatusOf(w),
              worker[w].dl)
    /\ UNCHANGED <<nextId, handle, file, saved, pending>>

WorkerStep(w) ==
    \/ ReadProgress(w) \/ Respond(w) \/ RequestFails(w)
    \/ OpenFile(w) \/ OpenFails(w) \/ CheckCancel(w)
    \/ ReadChunk(w) \/ WriteFails(w) \/ ReadFails(w) \/ Finish(w)

UserStep ==
    \/ \E n \in Names : Start(n)
    \/ \E id \in DOMAIN entries : Pause(id) \/ Resume(id) \/ Remove(id)

Next ==
    /\ \/ UserStep
       \/ Save
       \/ Restart
       \/ \E w \in Workers : WorkerStep(w)
    /\ UNCHANGED faults

Spec == Init /\ [][Next]_vars

\* The operating system runs every thread, and the client's timeout ends every
\* request: a thread that can take a step eventually does.
FairSpec == Spec /\ \A w \in Workers : WF_vars(WorkerStep(w) /\ UNCHANGED faults)

-----------------------------------------------------------------------------
Busy(id) == id \in DOMAIN entries /\ entries[id].status \in {"Queued", "Downloading"}

\* A download and its thread keep hold of each other. One shown as queued or
\* running has a thread: whatever the threads of earlier attempts still write into
\* its entry, it is never left behind. And pause and remove reach the thread of
\* the last attempt, never an older one, also after a restart has given old ids
\* out again.
ThreadIsHeld ==
    /\ \A id \in Ids : Busy(id) => LiveFor(id) # {}
    /\ \A id \in DOMAIN entries : id \in DOMAIN handle /\ handle[id] = NewestOf(worker, id)

\* In an environment that does no more than drop connections, a completed
\* download is the resource, after any pauses, failures and resumes; and a
\* download that no thread works on can be continued: what is recorded of it is
\* what the file holds, so that a Range request from there goes on with it.
CompletedIsWhole ==
    faults = {} =>
        \A id \in DOMAIN entries :
            /\ entries[id].status = "Completed" => file[entries[id].name] = Resource
            /\ LiveFor(id) = {} =>
                 file[entries[id].name] = SubSeq(Resource, 1, entries[id].done)

\* A paused download neither runs nor completes until it is resumed, whatever
\* its thread was doing when the pause came; unless it was resumed while the
\* thread of an earlier attempt still ran.
PauseHolds ==
    "impatient" \notin faults =>
        \A id \in DOMAIN entries \cap DOMAIN entries' :
            entries[id].status = "Paused" =>
                entries'[id].status \notin {"Downloading", "Completed"}

PausedUntilResumed == [][PauseHolds]_vars

\* Every download stops being queued or running: it completes, fails or pauses.
Settles == \A id \in Ids : Busy(id) ~> ~ Busy(id)

\* app.rs:916 "Restore persisted download state and auto-resume pending
\* downloads": what is resumed was unfinished when the state was last saved.
ResumesPending == [][Restart => DOMAIN entries' \subseteq pending]_vars
=============================================================================
