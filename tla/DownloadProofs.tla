---------------------------- MODULE DownloadProofs ----------------------------
(***************************************************************************)
(* Proofs about DownloadManager, for any number of names, chunks, threads  *)
(* and restarts: that a download and its thread keep hold of each other,   *)
(* that a completed download is the resource, and that a paused one stays  *)
(* paused.                                                                 *)
(***************************************************************************)
EXTENDS DownloadManager, FiniteSetTheorems, SequenceTheorems, TLAPS

\* A thread, a download that is shown and one that is saved.
Thread ==
    [pc : {"idle", "start", "sent", "open", "loop", "read", "done"},
     id : 0..MaxWorkers, name : Names \cup {NoName},
     start : Nat, dl : Nat, rest : Seq(Nat), cancel : BOOLEAN]

Entry == [name : Names, status : Status, done : Nat]

SavedEntry == [name : Names, done : Nat]

Types ==
    /\ worker \in [Workers -> Thread]
    /\ entries \in [DOMAIN entries -> Entry]
    /\ saved \in [DOMAIN saved -> SavedEntry]
    /\ handle \in [DOMAIN handle -> Workers]
    /\ file \in [Names -> Seq(Nat)]

\* How many threads were spawned: they are the first ones.
Used == Cardinality({w \in Workers : worker[w].pc # "idle"})

Slots ==
    /\ Used \in 0..MaxWorkers
    /\ \A w \in Workers : IF w <= Used THEN worker[w].pc # "idle" /\ worker[w].id \in 1..Used
                                        /\ worker[w].name \in Names
                          ELSE worker[w] = Idle
    /\ nextId \in 1..(Used + 1)
    /\ DOMAIN entries \subseteq 1..(nextId - 1)
    /\ DOMAIN saved \subseteq 1..Used

\* Thread h is the last one spawned for download id.
IsNewest(threads, h, id) ==
    /\ threads[h].id = id
    /\ \A w \in Workers : threads[w].id = id => w <= h

Held(id) ==
    /\ id \in DOMAIN handle /\ IsNewest(worker, handle[id], id)
    /\ entries[id].status = "Queued" => worker[handle[id]].pc \in {"start", "sent"}
    /\ entries[id].status = "Downloading" => \E w \in Workers : Live(w) /\ worker[w].id = id

\* The last thread of a download is the one its handle names; a download is queued
\* only until that thread has an answer, and runs only while a thread of it does.
HeldInv == Types /\ Slots /\ \A id \in DOMAIN entries : Held(id)

\* The first n chunks of a resource, and those that remain after d of them.
Chunks(n) == [k \in 1..n |-> k]
RestFrom(d) == [k \in 1..(Size - d) |-> d + k]

\* What thread t knows of the download e it works for, whose file is f: until it
\* has opened the file that is what is recorded, then what it has counted.
Working(t, e, f) ==
    /\ e.status # "Completed"
    /\ t.pc \in {"start", "sent", "open"} => f = Chunks(e.done)
    /\ t.pc \in {"sent", "open"} => t.start = e.done
    /\ t.pc = "open" => t.dl = e.done
    /\ t.pc \in {"loop", "read"} => t.dl \in 0..Size /\ f = Chunks(t.dl)
    /\ t.pc \in {"open", "loop", "read"} => t.rest = RestFrom(t.dl)

\* A download no thread works for.
Resting(e, f) ==
    /\ f = Chunks(e.done)
    /\ e.status = "Completed" => e.done = Size

IsSpawned(w) == worker[w].pc # "idle"

\* Every download has a file of its own, which is empty before its first thread,
\* and one thread at most that runs.
Owners ==
    /\ \A w \in Workers : worker[w].id < nextId
    /\ \A v, w \in Workers : IsSpawned(v) /\ IsSpawned(w) =>
           (worker[v].id = worker[w].id <=> worker[v].name = worker[w].name)
    /\ \A v, w \in Workers : Live(v) /\ Live(w) /\ worker[v].id = worker[w].id => v = w
    /\ \A n \in Names : (\A w \in Workers : IsSpawned(w) => worker[w].name # n) => file[n] = <<>>

\* What is recorded of a download, what its threads know of it and its file agree.
Whole(id) ==
    LET e == entries[id]
        f == file[e.name]
    IN  /\ e.done \in 0..Size
        /\ \A w \in Workers : worker[w].id = id => worker[w].name = e.name
        /\ \A w \in Workers : worker[w].id = id /\ Live(w) => Working(worker[w], e, f)
        /\ (\A w \in Workers : worker[w].id = id => ~Live(w)) => Resting(e, f)

WholeInv == faults = {} => Owners /\ \A id \in DOMAIN entries : Whole(id)

-----------------------------------------------------------------------------
(* The threads that are spawned.                                           *)

USE SizeAssumption

\* The first n threads are n.
LEMMA CountFirst ==
    ASSUME NEW n \in 0..MaxWorkers, NEW S, S = {w \in Workers : w <= n}
    PROVE  Cardinality(S) = n
<1>1. S = 1..n
  <2>1. {w \in Workers : w <= n} = 1..n
    BY DEF Workers
  <2> QED BY <2>1
<1>2. Cardinality(1..n) = IF 1 > n THEN 0 ELSE n - 1 + 1
  BY FS_Interval
<1>3. Cardinality(1..n) = n
  BY <1>2
<1> QED BY <1>1, <1>3, Zenon

\* The place of a download among those that are resumed together.
Rank(ids, i) == Cardinality({j \in ids : j <= i})

\* The ranks of the downloads of a set are the numbers up to their count.
LEMMA Ranks ==
    ASSUME NEW ids \in SUBSET Ids
    PROVE  /\ IsFiniteSet(ids) /\ Cardinality(ids) \in Nat
           /\ \A i \in ids : Rank(ids, i) \in 1..Cardinality(ids)
           /\ \A i, j \in ids : Rank(ids, i) = Rank(ids, j) => i = j
           /\ \A m \in 1..Cardinality(ids) : \E i \in ids : Rank(ids, i) = m
<1> DEFINE N == Cardinality(ids)
           r == [i \in ids |-> Rank(ids, i)]
           B(i) == {j \in ids : j <= i}
<1>1. IsFiniteSet(ids) /\ ids \subseteq Nat
  <2>1. IsFiniteSet(Ids)
    BY FS_Interval DEF Ids
  <2>2. IsFiniteSet(ids)
    BY <2>1, FS_Subset
  <2> QED BY <2>2 DEF Ids
<1>2. N \in Nat
  BY <1>1, FS_CardinalityType
<1>3. \A i \in ids : IsFiniteSet(B(i)) /\ Rank(ids, i) \in Nat /\ Rank(ids, i) <= N
  <2> TAKE i \in ids
  <2> DEFINE S == B(i)
  <2>1. S \in SUBSET ids
    OBVIOUS
  <2> HIDE DEF S
  <2>2. IsFiniteSet(S) /\ Cardinality(S) <= N
    BY <1>1, <2>1, FS_Subset
  <2>3. Cardinality(S) \in Nat
    BY <2>2, FS_CardinalityType
  <2>4. Rank(ids, i) = Cardinality(S)
    BY DEF Rank, S
  <2> QED BY <2>2, <2>3, <2>4 DEF S
<1> HIDE DEF B, N
<1>b. \A i \in ids : Rank(ids, i) = Cardinality(B(i))
  BY DEF Rank, B
<1>4. ASSUME NEW i \in ids, NEW j \in ids, i < j PROVE Rank(ids, i) < Rank(ids, j)
  <2>1. B(i) \in SUBSET B(j) /\ j \in B(j) /\ j \notin B(i)
    <3>1. i \in Nat /\ j \in Nat /\ ~(j <= i) /\ j <= j
      BY <1>1, <1>4
    <3>2. \A x \in ids : x <= i => x <= j
      BY <1>1, <1>4, <3>1
    <3> QED BY <3>1, <3>2 DEF B
  <2>2. Cardinality(B(i)) <= Cardinality(B(j)) /\ (Cardinality(B(j)) = Cardinality(B(i)) => B(j) = B(i))
    BY <1>3, <2>1, FS_Subset
  <2>3. Cardinality(B(i)) # Cardinality(B(j))
    BY <2>1, <2>2
  <2> QED BY <1>3, <1>b, <2>2, <2>3
<1>5. \A i \in ids : Rank(ids, i) \in 1..N
  <2> TAKE i \in ids
  <2>1. B(i) # {}
    BY <1>1 DEF B
  <2>2. Cardinality(B(i)) # 0
    BY <1>3, <2>1, FS_EmptySet
  <2> QED BY <1>2, <1>3, <1>b, <2>2
<1>6. \A i, j \in ids : Rank(ids, i) = Rank(ids, j) => i = j
  <2> SUFFICES ASSUME NEW i \in ids, NEW j \in ids, Rank(ids, i) = Rank(ids, j), i # j PROVE FALSE
    OBVIOUS
  <2>1. i < j \/ j < i
    BY <1>1
  <2>2. Rank(ids, i) \in Nat /\ Rank(ids, j) \in Nat
    BY <1>3
  <2>3. Rank(ids, i) < Rank(ids, j) \/ Rank(ids, j) < Rank(ids, i)
    BY <1>4, <2>1
  <2> QED BY <2>2, <2>3
<1>7. r \in Injection(ids, 1..N)
  <2>1. r \in [ids -> 1..N]
    BY <1>5
  <2> QED BY <1>6, <2>1 DEF Injection, IsInjective
<1>8. r \in Surjection(ids, 1..N)
  <2> DEFINE T == 1..N
  <2>1. IsFiniteSet(T) /\ Cardinality(T) = N
    <3>1. IsFiniteSet(1..N) /\ Cardinality(1..N) = IF 1 > N THEN 0 ELSE N - 1 + 1
      BY <1>2, FS_Interval
    <3> QED BY <1>2, <3>1
  <2>2. r \in Injection(ids, T)
    BY <1>7
  <2> HIDE DEF T, r
  <2>3. Cardinality(ids) = Cardinality(T)
    BY <2>1 DEF N
  <2>4. r \in Surjection(ids, T)
    BY <2>1, <2>2, <2>3, FS_Injection
  <2> QED BY <2>4 DEF T, r
<1>9. \A m \in 1..N : \E i \in ids : Rank(ids, i) = m
  BY <1>8 DEF Surjection
<1> QED BY <1>1, <1>2, <1>5, <1>6, <1>9 DEF N

\* A thread before its first step.
New(i, name) == [Idle EXCEPT !.pc = "start", !.id = i, !.name = name]

\* A thread that was never spawned works for nothing.
LEMMA IdleThread == Idle \in Thread /\ Idle.pc = "idle" /\ Idle.id = 0
<1>1. Idle \in Thread
  BY DEF Idle, Thread
<1>2. Idle.pc = "idle" /\ Idle.id = 0
  BY DEF Idle
<1> QED BY <1>1, <1>2

\* A thread that was just spawned works for the download it is given.
LEMMA NewThread ==
    ASSUME NEW i \in Ids, NEW m \in Names
    PROVE  /\ New(i, m) \in Thread /\ New(i, m).pc = "start"
           /\ New(i, m).id = i /\ New(i, m).name = m
<1> DEFINE x == Idle
           y == [x EXCEPT !.pc = "start"]
           z == [y EXCEPT !.id = i]
           t == [z EXCEPT !.name = m]
<1>1. x \in Thread
  BY IdleThread
<1> HIDE DEF x
<1>2. y \in Thread /\ y.pc = "start"
  BY <1>1 DEF Thread
<1> HIDE DEF y
<1>3. z \in Thread /\ z.pc = "start" /\ z.id = i
  BY <1>2 DEF Thread, Ids
<1> HIDE DEF z
<1>4. t \in Thread /\ t.pc = "start" /\ t.id = i /\ t.name = m
  BY <1>3 DEF Thread
<1>5. t = New(i, m)
  BY DEF z, y, x, New
<1> QED BY <1>4, <1>5

\* The threads that are spawned take the first places that are left, one for
\* each download.
LEMMA Spawning ==
    ASSUME Slots, NEW ids \in SUBSET Ids, Spawns(ids) <= MaxWorkers,
           NEW threads, NEW ents, \A i \in ids : ents[i].name \in Names
    PROVE  LET new == (Used + 1)..(Used + Cardinality(ids))
               sp == Spawned(threads, ents, ids)
           IN  /\ Cardinality(ids) \in Nat /\ Used + Cardinality(ids) <= MaxWorkers
               /\ new \subseteq Workers
               /\ \A i \in ids : \E w \in new : sp[w] = New(i, ents[i].name)
               /\ \A w \in new : \E i \in ids : sp[w] = New(i, ents[i].name)
               /\ \A v, w \in new : sp[v].id = sp[w].id => v = w
               /\ \A w \in Workers \ new : sp[w] = threads[w]
               /\ DOMAIN sp = Workers
<1> DEFINE n == Used
           N == Cardinality(ids)
           new == (n + 1)..(n + N)
           slot(i) == n + Rank(ids, i)
           sp == [w \in Workers |->
                    IF \E i \in ids : w = slot(i)
                    THEN New(CHOOSE i \in ids : w = slot(i),
                             ents[CHOOSE i \in ids : w = slot(i)].name)
                    ELSE threads[w]]
<1>1. Spawned(threads, ents, ids) = sp
  <2>1. \A i : [Idle EXCEPT !.pc = "start", !.id = i, !.name = ents[i].name]
                 = New(i, ents[i].name)
    BY DEF New
  <2> QED BY <2>1 DEF Spawned, Rank, Used
<1>2. /\ n \in Nat /\ N \in Nat /\ n + N <= MaxWorkers
      /\ \A i \in ids : Rank(ids, i) \in 1..N
      /\ \A i, j \in ids : Rank(ids, i) = Rank(ids, j) => i = j
      /\ \A m \in 1..N : \E i \in ids : Rank(ids, i) = m
  BY Ranks DEF Slots, Spawns, Used
<1> HIDE DEF n, N
<1>3. new \subseteq Workers
  BY <1>2 DEF Workers
<1>4. ASSUME NEW i \in ids PROVE slot(i) \in new /\ sp[slot(i)] = New(i, ents[i].name)
  <2>1. slot(i) \in new
    BY <1>2
  <2>2. (CHOOSE j \in ids : slot(i) = slot(j)) = i
    BY <1>2
  <2> HIDE DEF slot
  <2> QED BY <1>3, <2>1, <2>2
<1>5. ASSUME NEW w \in new PROVE \E i \in ids : w = slot(i)
  <2>1. w - n \in 1..N
    BY <1>2
  <2>2. PICK i \in ids : Rank(ids, i) = w - n
    BY <1>2, <2>1
  <2> QED BY <1>2, <2>2
<1> HIDE DEF slot, new, sp
<1>6. \A i \in ids : \E w \in new : sp[w] = New(i, ents[i].name)
  BY <1>4
<1>7. \A w \in new : \E i \in ids : sp[w] = New(i, ents[i].name)
  BY <1>4, <1>5
<1>8. \A v, w \in new : sp[v].id = sp[w].id => v = w
  <2> SUFFICES ASSUME NEW v \in new, NEW w \in new, sp[v].id = sp[w].id PROVE v = w
    OBVIOUS
  <2>1. PICK i \in ids : v = slot(i)
    BY <1>5
  <2>2. PICK j \in ids : w = slot(j)
    BY <1>5
  <2>3. sp[v] = New(i, ents[i].name) /\ sp[w] = New(j, ents[j].name)
    BY <1>4, <2>1, <2>2
  <2>4. i \in Ids /\ j \in Ids /\ ents[i].name \in Names /\ ents[j].name \in Names
    OBVIOUS
  <2>5. i = j
    BY <2>3, <2>4, NewThread
  <2> QED BY <2>1, <2>2, <2>5
<1>9. \A w \in Workers \ new : sp[w] = threads[w]
  <2>1. \A w \in Workers \ new : ~\E i \in ids : w = slot(i)
    BY <1>4
  <2> QED BY <2>1 DEF sp
<1>10. DOMAIN sp = Workers
  BY DEF sp
<1> QED BY <1>1, <1>2, <1>3, <1>6, <1>7, <1>8, <1>9, <1>10 DEF n, N, new

-----------------------------------------------------------------------------
(* ThreadIsHeld: what the invariant gives, and the first state.            *)

\* The greatest of a set of numbers.
LEMMA MaxIs ==
    ASSUME NEW S \in SUBSET Int, NEW m \in S, \A x \in S : x <= m
    PROVE  Max(S) = m
<1>1. \A y \in S : m >= y
  OBVIOUS
<1>2. \A x \in S : (\A y \in S : x >= y) => x = m
  OBVIOUS
<1> QED BY <1>1, <1>2 DEF Max

\* The least element is what Min chooses.
LEMMA MinIs ==
    ASSUME NEW S \in SUBSET Int, NEW m \in S, \A x \in S : m <= x
    PROVE  Min(S) = m
<1>1. \A y \in S : m <= y
  OBVIOUS
<1>2. \A x \in S : (\A y \in S : x <= y) => x = m
  OBVIOUS
<1> QED BY <1>1, <1>2 DEF Min

\* The greater of two numbers.
LEMMA MaxTwo ==
    ASSUME NEW a \in Nat, NEW b \in Nat
    PROVE  Max({a, b}) = IF b <= a THEN a ELSE b
<1> DEFINE S == {a, b}
           m == IF b <= a THEN a ELSE b
<1>1. S \in SUBSET Int /\ m \in S /\ \A x \in S : x <= m
  OBVIOUS
<1> HIDE DEF S, m
<1>2. Max(S) = m
  BY <1>1, MaxIs
<1> QED BY <1>2 DEF S, m

\* The lesser of two numbers.
LEMMA MinTwo ==
    ASSUME NEW a \in Nat, NEW b \in Nat
    PROVE  Min({a, b}) = IF a <= b THEN a ELSE b
<1> DEFINE S == {a, b}
           m == IF a <= b THEN a ELSE b
<1>1. S \in SUBSET Int /\ m \in S /\ \A x \in S : m <= x
  OBVIOUS
<1> HIDE DEF S, m
<1>2. Min(S) = m
  BY <1>1, MinIs
<1> QED BY <1>2 DEF S, m

\* The threads are held: what the property says.
LEMMA HeldGives == HeldInv => ThreadIsHeld
<1> SUFFICES ASSUME HeldInv PROVE ThreadIsHeld
  OBVIOUS
<1>1. ASSUME NEW id \in DOMAIN entries
      PROVE  handle[id] \in Workers /\ id \in DOMAIN handle
  BY DEF HeldInv, Held, Types
<1>2. ASSUME NEW id \in Ids, Busy(id) PROVE LiveFor(id) # {}
  <2>1. id \in DOMAIN entries /\ Held(id)
    BY <1>2 DEF Busy, HeldInv
  <2>2. \E w \in Workers : Live(w) /\ worker[w].id = id
    <3>1. CASE entries[id].status = "Queued"
      <4>1. Live(handle[id]) /\ worker[handle[id]].id = id
        BY <2>1, <3>1 DEF Held, IsNewest, Live
      <4> QED BY <1>1, <2>1, <4>1
    <3>2. CASE entries[id].status = "Downloading"
      BY <2>1, <3>2 DEF Held
    <3> QED BY <1>2, <3>1, <3>2 DEF Busy
  <2> QED BY <2>2 DEF LiveFor
<1>3. ASSUME NEW id \in DOMAIN entries PROVE handle[id] = NewestOf(worker, id)
  <2> DEFINE S == {w \in Workers : worker[w].id = id}
             h == handle[id]
  <2>1. h \in S /\ \A x \in S : x <= h
    BY <1>1 DEF HeldInv, Held, IsNewest
  <2>2. S \in SUBSET Int
    BY DEF Workers
  <2> HIDE DEF S, h
  <2>3. Max(S) = h
    BY <2>1, <2>2, MaxIs
  <2> QED BY <2>3 DEF NewestOf, S, h
<1> QED BY <1>1, <1>2, <1>3 DEF ThreadIsHeld

\* Nothing is downloaded at first.
LEMMA HeldInit == Init => HeldInv
<1> SUFFICES ASSUME Init PROVE HeldInv
  OBVIOUS
<1>1. Idle \in Thread /\ Idle.pc = "idle"
  BY IdleThread
<1>2. worker = [w \in Workers |-> Idle] /\ DOMAIN entries = {} /\ DOMAIN saved = {}
      /\ DOMAIN handle = {} /\ nextId = 1
  BY DEF Init, NoFunction
<1>3. Types
  <2>1. entries = [id \in {} |-> {}] /\ saved = entries /\ handle = entries
    BY DEF Init, NoFunction
  <2>2. file \in [Names -> Seq(Nat)]
    BY DEF Init
  <2>3. worker \in [Workers -> Thread]
    BY <1>1, <1>2
  <2>4. \A T : entries \in [DOMAIN entries -> T]
    BY <2>1
  <2> QED BY <2>1, <2>2, <2>3, <2>4 DEF Types
<1>4. Used = 0
  <2>1. {w \in Workers : worker[w].pc # "idle"} = {}
    BY <1>1, <1>2
  <2> QED BY <2>1, FS_EmptySet DEF Used
<1>5. Slots
  <2>1. \A w \in Workers : ~(w <= Used) /\ worker[w] = Idle
    BY <1>2, <1>4 DEF Workers
  <2>2. nextId = 1
    BY <1>2
  <2> DEFINE n == Used
  <2>0. n = 0 /\ MaxWorkers \in Nat
    BY <1>4
  <2> HIDE DEF n
  <2>3. n \in 0..MaxWorkers /\ nextId \in 1..(n + 1)
    BY <2>0, <2>2
  <2> QED BY <1>2, <2>1, <2>3 DEF Slots, n
<1> QED BY <1>2, <1>3, <1>5 DEF HeldInv

\* What a step of a thread may change.
Moved(w) ==
    /\ Live(w) /\ worker'[w] \in Thread
    /\ worker'[w].id = worker[w].id /\ worker'[w].name = worker[w].name
    /\ worker'[w].pc # "idle"
    /\ worker' = [worker EXCEPT ![w] = worker'[w]]
    /\ entries' \in [DOMAIN entries -> Entry]
    /\ \A id \in DOMAIN entries :
           /\ entries'[id].name = entries[id].name
           /\ id # worker[w].id => entries'[id] = entries[id]
    /\ file' \in [Names -> Seq(Nat)]
    /\ \A n \in Names : n # worker[w].name => file'[n] = file[n]
    /\ UNCHANGED <<nextId, handle, saved>>

\* What a thread reports reaches the entry of its own download only.
LEMMA ReportIs ==
    ASSUME Types, NEW w \in Workers, NEW s \in Status, NEW d \in Nat, Report(w, s, d)
    PROVE  /\ entries' \in [DOMAIN entries -> Entry]
           /\ \A id \in DOMAIN entries :
                /\ entries'[id].name = entries[id].name
                /\ IF id = worker[w].id
                   THEN entries'[id].status = s /\ entries'[id].done = d
                   ELSE entries'[id] = entries[id]
<1> DEFINE i == worker[w].id
<1>1. CASE i \in DOMAIN entries
  <2>1. entries' = [entries EXCEPT ![i].status = s, ![i].done = d]
    BY <1>1 DEF Report
  <2>2. entries[i] \in Entry /\ entries \in [DOMAIN entries -> Entry]
    BY <1>1 DEF Types
  <2> DEFINE e == entries[i]
             x == [e EXCEPT !.status = s]
             y == [x EXCEPT !.done = d]
  <2>3. entries' = [entries EXCEPT ![i] = y]
    BY <1>1, <2>1
  <2> HIDE DEF e
  <2>4. x \in Entry /\ x.status = s /\ x.name = e.name
    BY <2>2 DEF Entry, e
  <2> HIDE DEF x
  <2>5. y \in Entry /\ y.status = s /\ y.done = d /\ y.name = e.name
    BY <2>4 DEF Entry
  <2> HIDE DEF y, i
  <2> QED BY <1>1, <2>2, <2>3, <2>5 DEF e, i
<1>2. CASE i \notin DOMAIN entries
  BY <1>2 DEF Report, Types
<1> QED BY <1>1, <1>2

\* A thread that goes on keeps what it works for.
LEMMA GotoIs ==
    ASSUME Types, NEW w \in Workers, NEW pc \in {"read", "loop", "done"}, Goto(w, pc)
    PROVE  /\ worker'[w] \in Thread
           /\ worker' = [worker EXCEPT ![w] = worker'[w]]
           /\ worker'[w].pc = pc
           /\ worker'[w].id = worker[w].id /\ worker'[w].name = worker[w].name
           /\ worker'[w].start = worker[w].start /\ worker'[w].dl = worker[w].dl
           /\ worker'[w].rest = worker[w].rest
<1> DEFINE t == worker[w]
           x == [t EXCEPT !.pc = pc]
<1>1. worker \in [Workers -> Thread] /\ t \in Thread
  BY DEF Types
<1>2. worker' = [worker EXCEPT ![w] = x]
  BY <1>1 DEF Goto
<1> HIDE DEF t
<1>3. x \in Thread /\ x.pc = pc /\ x.id = t.id /\ x.name = t.name
      /\ x.start = t.start /\ x.dl = t.dl /\ x.rest = t.rest
  BY <1>1 DEF Thread
<1> HIDE DEF x
<1> QED BY <1>1, <1>2, <1>3 DEF t

-----------------------------------------------------------------------------
(* A step of a thread.                                                     *)

\* No more is read than there is.
LEMMA Limit ==
    ASSUME NEW n \in Nat
    PROVE  Min({n, TakeLimit}) \in 0..n
<1>1. TakeLimit \in Nat
  BY SizeAssumption
<1>2. Min({n, TakeLimit}) = IF n <= TakeLimit THEN n ELSE TakeLimit
  BY <1>1, MinTwo
<1> QED BY <1>1, <1>2

\* What a server sends, cut at the limit.
LEMMA BodyType ==
    ASSUME NEW d \in Nat, NEW body \in Bodies(d)
    PROVE  SubSeq(body, 1, Min({Len(body), TakeLimit})) \in Seq(Nat)
<1>0. Size \in Nat /\ TakeLimit \in Nat
  BY SizeAssumption
<1>1. Resource \in Seq(Nat) /\ \A i \in 1..Size : Resource[i] = i
  <2>1. [k \in 1..Size |-> k] \in Seq(Nat)
    BY <1>0
  <2> QED BY <2>1 DEF Resource
<1>2. body \in Seq(Nat)
  <2>1. SubSeq(Resource, d + 1, Size) \in Seq(Nat)
    <3>1. \A i \in (d + 1)..Size : Resource[i] \in Nat
      BY <1>0, <1>1
    <3> DEFINE m == d + 1
    <3>2. m \in Int /\ Size \in Int /\ \A i \in m..Size : Resource[i] \in Nat
      BY <1>0, <3>1
    <3> HIDE DEF m
    <3>3. SubSeq(Resource, m, Size) \in Seq(Nat)
      BY <3>2, SubSeqProperties
    <3> QED BY <3>3 DEF m
  <2>2. Page \in Seq(Nat)
    BY DEF Page
  <2>3. \/ body = SubSeq(Resource, d + 1, Size)
        \/ body = Resource
        \/ body = Page
    BY DEF Bodies
  <2> QED BY <1>1, <2>1, <2>2, <2>3
<1>3. Len(body) \in Nat
  BY <1>2
<1>4. Min({Len(body), TakeLimit}) \in 0..Len(body)
  BY <1>3, Limit
<1> QED
  <2> DEFINE m == Min({Len(body), TakeLimit})
  <2>0. m \in 0..Len(body)
    BY <1>4
  <2> HIDE DEF m
  <2>1. m \in Int /\ \A i \in 1..m : body[i] \in Nat
    BY <1>2, <1>3, <2>0
  <2>2. SubSeq(body, 1, m) \in Seq(Nat)
    BY <2>1, SubSeqProperties
  <2> QED BY <2>2 DEF m

\* What a chunk does to the file of its thread.
LEMMA WrittenType ==
    ASSUME Types, NEW w \in Workers, worker[w].name \in Names, worker[w].rest # <<>>
    PROVE  /\ Written(w) \in [Names -> Seq(Nat)]
           /\ \A n \in Names : n # worker[w].name => Written(w)[n] = file[n]
<1> DEFINE chunks == file[worker[w].name]
           pos == (IF worker[w].start > 0 THEN Len(chunks) ELSE worker[w].dl) + 1
           m == Max({Len(chunks), pos})
           g == [k \in 1..m |-> IF k = pos THEN Head(worker[w].rest)
                                ELSE IF k <= Len(chunks) THEN chunks[k] ELSE 0]
<1>1. /\ worker[w] \in Thread /\ chunks \in Seq(Nat)
      /\ worker[w].rest \in Seq(Nat) /\ worker[w].start \in Nat /\ worker[w].dl \in Nat
      /\ file \in [Names -> Seq(Nat)]
  BY DEF Types, Thread
<1>2. Len(chunks) \in Nat /\ pos \in Nat /\ Head(worker[w].rest) \in Nat
  <2>1. Len(chunks) \in Nat
    BY <1>1
  <2>2. Head(worker[w].rest) \in Nat
    BY <1>1, HeadTailProperties
  <2> HIDE DEF chunks
  <2>3. pos \in Nat
    BY <1>1, <2>1
  <2> QED BY <2>1, <2>2, <2>3
<1>3. Written(w) = [file EXCEPT ![worker[w].name] = g]
  BY DEF Written
<1> DEFINE n == Len(chunks)
<1> HIDE DEF pos
<1>4. m \in Nat
  <2> HIDE DEF n
  <2>1. Max({n, pos}) \in Nat
    BY <1>2, MaxTwo DEF n
  <2> QED BY <2>1 DEF n
<1> HIDE DEF chunks
<1> HIDE DEF m
<1>5. \A k \in 1..m : (IF k = pos THEN Head(worker[w].rest)
                       ELSE IF k <= Len(chunks) THEN chunks[k] ELSE 0) \in Nat
  <2> TAKE k \in 1..m
  <2>1. k <= Len(chunks) => chunks[k] \in Nat
    BY <1>1, <1>2, <1>4
  <2> QED BY <1>2, <2>1
<1>6. g \in Seq(Nat)
  <2>1. g \in [1..m -> Nat]
    BY <1>5
  <2> QED BY <1>4, <2>1
<1> HIDE DEF g
<1> QED BY <1>1, <1>3, <1>6

\* Every step of a thread changes its own position, download and file only.
LEMMA WorkerMoves ==
    ASSUME Types, Slots, NEW w \in Workers, WorkerStep(w)
    PROVE  Moved(w)
<1> DEFINE t == worker[w]
<1>0. /\ t \in Thread /\ t.start \in Nat /\ t.dl \in Nat /\ t.rest \in Seq(Nat)
      /\ DoneOf(w) \in Nat /\ StatusOf(w) \in Status
      /\ worker \in [Workers -> Thread] /\ entries \in [DOMAIN entries -> Entry]
      /\ file \in [Names -> Seq(Nat)]
  <2>1. t \in Thread
    BY DEF Types
  <2>2. \A id \in DOMAIN entries : entries[id].done \in Nat /\ entries[id].status \in Status
    BY DEF Types, Entry
  <2> QED BY <2>1, <2>2 DEF Types, Thread, DoneOf, StatusOf, Status
<1>n. t.pc # "idle" => t.name \in Names
  BY IdleThread DEF Slots
<1>s. {"Queued", "Downloading", "Paused", "Completed", "Failed"} = Status
  BY DEF Status
<1>1. CASE ReadProgress(w)
  <2> DEFINE d == DoneOf(w)
             x == [t EXCEPT !.pc = "sent"]
             y == [x EXCEPT !.start = d]
  <2>1. worker' = [worker EXCEPT ![w] = y] /\ t.pc = "start"
        /\ UNCHANGED <<entries, nextId, handle, file, saved>>
    BY <1>0, <1>1 DEF ReadProgress
  <2> HIDE DEF t, d
  <2>2. x \in Thread /\ x.id = t.id /\ x.name = t.name /\ x.pc = "sent"
    BY <1>0 DEF Thread
  <2> HIDE DEF x
  <2>3. y \in Thread /\ y.id = t.id /\ y.name = t.name /\ y.pc = "sent"
    BY <1>0, <2>2 DEF Thread, d
  <2> HIDE DEF y
  <2> QED BY <1>0, <2>1, <2>3 DEF Moved, Live, t
<1>2. CASE Respond(w)
  <2>1. PICK body \in Bodies(t.start) :
            worker' = [worker EXCEPT ![w].pc = "open", ![w].dl = worker[w].start,
                        ![w].rest = SubSeq(body, 1, Min({Len(body), TakeLimit}))]
    BY <1>2 DEF Respond
  <2>2. t.pc = "sent" /\ Report(w, "Downloading", DoneOf(w))
        /\ UNCHANGED <<nextId, handle, file, saved>>
    BY <1>2 DEF Respond
  <2> DEFINE r == SubSeq(body, 1, Min({Len(body), TakeLimit}))
             x == [t EXCEPT !.pc = "open"]
             y == [x EXCEPT !.dl = t.start]
             z == [y EXCEPT !.rest = r]
  <2>3. r \in Seq(Nat)
    BY <1>0, BodyType
  <2> HIDE DEF r
  <2>4. worker' = [worker EXCEPT ![w] = z]
    BY <1>0, <2>1 DEF r
  <2> HIDE DEF t
  <2>5. x \in Thread /\ x.id = t.id /\ x.name = t.name /\ x.pc = "open"
    BY <1>0 DEF Thread
  <2> HIDE DEF x
  <2>6. y \in Thread /\ y.id = t.id /\ y.name = t.name /\ y.pc = "open"
    BY <1>0, <2>5 DEF Thread
  <2> HIDE DEF y
  <2>7. z \in Thread /\ z.id = t.id /\ z.name = t.name /\ z.pc = "open"
    BY <2>3, <2>6 DEF Thread
  <2> HIDE DEF z
  <2>8. worker'[w] = z
    BY <1>0, <2>4
  <2>9. /\ entries' \in [DOMAIN entries -> Entry]
        /\ \A id \in DOMAIN entries :
             /\ entries'[id].name = entries[id].name
             /\ id # t.id => entries'[id] = entries[id]
    BY <1>0, <2>2, ReportIs DEF Status, t
  <2> QED BY <1>0, <2>2, <2>4, <2>7, <2>8, <2>9 DEF Moved, Live, t
<1>3. ASSUME NEW pc \in {"read", "loop", "done"}, Goto(w, pc), Live(w),
             UNCHANGED entries \/ \E s \in Status, d \in Nat : Report(w, s, d),
             UNCHANGED <<nextId, handle, saved>>,
             /\ file' \in [Names -> Seq(Nat)]
             /\ \A n \in Names : n # worker[w].name => file'[n] = file[n]
      PROVE  Moved(w)
  <2>1. /\ entries' \in [DOMAIN entries -> Entry]
        /\ \A id \in DOMAIN entries :
             /\ entries'[id].name = entries[id].name
             /\ id # t.id => entries'[id] = entries[id]
    <3>1. CASE UNCHANGED entries
      BY <1>0, <3>1
    <3>2. CASE \E s \in Status, d \in Nat : Report(w, s, d)
      BY <3>2, ReportIs
    <3> QED BY <1>3, <3>1, <3>2
  <2>2. /\ worker'[w] \in Thread
        /\ worker' = [worker EXCEPT ![w] = worker'[w]]
        /\ worker'[w].pc = pc
        /\ worker'[w].id = worker[w].id /\ worker'[w].name = worker[w].name
    BY <1>3, GotoIs
  <2> QED BY <1>3, <2>1, <2>2 DEF Moved
<1>4. CASE RequestFails(w)
  BY <1>0, <1>3, <1>4, <1>s DEF RequestFails, Live
<1>5. CASE OpenFile(w)
  <2>1. /\ file' \in [Names -> Seq(Nat)]
        /\ \A n \in Names : n # worker[w].name => file'[n] = file[n]
    <3>1. <<>> \in Seq(Nat)
      OBVIOUS
    <3> QED BY <1>0, <1>5, <3>1 DEF OpenFile
  <2>2. UNCHANGED <<entries, nextId, handle, saved>> /\ Goto(w, "loop") /\ Live(w)
    BY <1>5 DEF OpenFile, Live
  <2> QED BY <1>3, <2>1, <2>2
<1>6. CASE OpenFails(w)
  BY <1>0, <1>3, <1>6, <1>s DEF OpenFails, Live
<1>7. CASE CheckCancel(w)
  <2>1. CASE worker[w].cancel
    BY <1>0, <1>3, <1>7, <1>s, <2>1 DEF CheckCancel, Live
  <2>2. CASE ~worker[w].cancel
    BY <1>0, <1>3, <1>7, <2>2 DEF CheckCancel, Live
  <2> QED BY <2>1, <2>2
<1>8. CASE ReadChunk(w)
  <2> DEFINE d == t.dl + 1
             r == Tail(t.rest)
             x == [t EXCEPT !.pc = "loop"]
             y == [x EXCEPT !.dl = d]
             z == [y EXCEPT !.rest = r]
  <2>1. /\ t.pc = "read" /\ t.rest # <<>>
        /\ worker' = [worker EXCEPT ![w] = z]
        /\ file' = Written(w)
        /\ UNCHANGED entries \/ Report(w, StatusOf(w), d)
        /\ UNCHANGED <<nextId, handle, saved>>
    BY <1>0, <1>8 DEF ReadChunk
  <2>2. d \in Nat /\ r \in Seq(Nat)
    BY <1>0, <2>1
  <2>3. /\ file' \in [Names -> Seq(Nat)]
        /\ \A n \in Names : n # worker[w].name => file'[n] = file[n]
    BY <1>n, <2>1, WrittenType
  <2>4. /\ entries' \in [DOMAIN entries -> Entry]
        /\ \A id \in DOMAIN entries :
             /\ entries'[id].name = entries[id].name
             /\ id # t.id => entries'[id] = entries[id]
    <3>1. CASE UNCHANGED entries
      BY <1>0, <3>1
    <3>2. CASE Report(w, StatusOf(w), d)
      <4> HIDE DEF d
      <4> QED BY <1>0, <2>2, <3>2, ReportIs
    <3> QED BY <2>1, <3>1, <3>2
  <2> HIDE DEF t, d, r
  <2>5. x \in Thread /\ x.id = t.id /\ x.name = t.name /\ x.pc = "loop"
    BY <1>0 DEF Thread
  <2> HIDE DEF x
  <2>6. y \in Thread /\ y.id = t.id /\ y.name = t.name /\ y.pc = "loop"
    BY <2>2, <2>5 DEF Thread
  <2> HIDE DEF y
  <2>7. z \in Thread /\ z.id = t.id /\ z.name = t.name /\ z.pc = "loop"
    BY <2>2, <2>6 DEF Thread
  <2> HIDE DEF z
  <2>8. worker'[w] = z
    BY <1>0, <2>1
  <2> QED BY <1>0, <2>1, <2>3, <2>4, <2>7, <2>8 DEF Moved, Live, t
<1>9. CASE WriteFails(w)
  <2>1. /\ file' \in [Names -> Seq(Nat)]
        /\ \A n \in Names : n # worker[w].name => file'[n] = file[n]
    BY <1>0, <1>9, <1>n, WrittenType DEF WriteFails
  <2> QED BY <1>0, <1>3, <1>9, <1>s, <2>1 DEF WriteFails, Live
<1>10. CASE ReadFails(w)
  BY <1>0, <1>3, <1>10, <1>s DEF ReadFails, Live
<1>11. CASE Finish(w)
  BY <1>0, <1>3, <1>11, <1>s DEF Finish, Live
<1> QED
  BY <1>1, <1>2, <1>4, <1>5, <1>6, <1>7, <1>8, <1>9, <1>10, <1>11 DEF WorkerStep

\* What becomes of the download whose thread takes a step: it is only Queued if
\* it was and the thread has no answer, and not Downloading when the thread ends.
Told(w) ==
    LET id == worker[w].id
    IN  id \in DOMAIN entries =>
          /\ entries'[id].status = "Queued" =>
               /\ entries[id].status = "Queued"
               /\ worker[w].pc \in {"start", "sent"} => worker'[w].pc \in {"start", "sent"}
          /\ entries'[id].status = "Downloading" => worker'[w].pc # "done"

\* What every step of a thread tells the entry of its download.
LEMMA WorkerTells ==
    ASSUME Types, Slots, NEW w \in Workers, WorkerStep(w)
    PROVE  Told(w)
<1> DEFINE id == worker[w].id
<1> SUFFICES ASSUME id \in DOMAIN entries
             PROVE  /\ entries'[id].status = "Queued" =>
                         /\ entries[id].status = "Queued"
                         /\ worker[w].pc \in {"start", "sent"} =>
                              worker'[w].pc \in {"start", "sent"}
                    /\ entries'[id].status = "Downloading" => worker'[w].pc # "done"
  BY DEF Told
<1>0. /\ worker[w] \in Thread /\ worker[w].start \in Nat /\ worker[w].dl \in Nat
      /\ DoneOf(w) \in Nat /\ StatusOf(w) \in Status
      /\ worker \in [Workers -> Thread]
      /\ StatusOf(w) = entries[id].status
  <2>1. worker[w] \in Thread
    BY DEF Types
  <2>2. \A i \in DOMAIN entries : entries[i].done \in Nat /\ entries[i].status \in Status
    BY DEF Types, Entry
  <2> QED BY <2>1, <2>2 DEF Types, Thread, DoneOf, StatusOf, Status
<1>1. ASSUME NEW s \in Status, NEW d \in Nat, Report(w, s, d)
      PROVE  entries'[id].status = s
  BY <1>1, ReportIs
<1>2. \A pc \in {"read", "loop", "done"} : Goto(w, pc) => worker'[w].pc = pc
  BY GotoIs
<1>s. {"Queued", "Downloading", "Paused", "Completed", "Failed"} = Status
  BY DEF Status
<1>3. CASE ReadProgress(w)
  <2>1. worker' = [worker EXCEPT ![w].pc = "sent", ![w].start = DoneOf(w)]
        /\ UNCHANGED entries
    BY <1>3 DEF ReadProgress
  <2>2. worker'[w].pc = "sent"
    BY <1>0, <2>1 DEF Thread
  <2> QED BY <2>1, <2>2
<1>4. CASE Respond(w)
  <2>1. PICK body \in Bodies(worker[w].start) :
            worker' = [worker EXCEPT ![w].pc = "open", ![w].dl = worker[w].start,
                        ![w].rest = SubSeq(body, 1, Min({Len(body), TakeLimit}))]
    BY <1>4 DEF Respond
  <2>2. worker'[w].pc = "open"
    BY <1>0, <2>1 DEF Thread
  <2>3. entries'[id].status = "Downloading"
    BY <1>0, <1>1, <1>4, <1>s DEF Respond
  <2> QED BY <2>2, <2>3
<1>5. CASE RequestFails(w)
  BY <1>0, <1>1, <1>5, <1>s DEF RequestFails
<1>6. CASE OpenFile(w)
  BY <1>2, <1>6 DEF OpenFile
<1>7. CASE OpenFails(w)
  BY <1>0, <1>1, <1>7, <1>s DEF OpenFails
<1>8. CASE CheckCancel(w)
  <2>1. CASE worker[w].cancel
    BY <1>0, <1>1, <1>8, <1>s, <2>1 DEF CheckCancel
  <2>2. CASE ~worker[w].cancel
    BY <1>2, <1>8, <2>2 DEF CheckCancel
  <2> QED BY <2>1, <2>2
<1>9. CASE ReadChunk(w)
  <2>1. worker'[w].pc = "loop"
    <3>1. worker' = [worker EXCEPT ![w].pc = "loop", ![w].dl = worker[w].dl + 1,
                                    ![w].rest = Tail(worker[w].rest)]
      BY <1>9 DEF ReadChunk
    <3> QED BY <1>0, <3>1 DEF Thread
  <2>2. entries'[id].status = entries[id].status
    <3>1. CASE UNCHANGED entries
      BY <3>1
    <3>2. CASE Report(w, StatusOf(w), worker[w].dl + 1)
      <4> DEFINE d == worker[w].dl + 1
      <4>1. d \in Nat /\ Report(w, StatusOf(w), d)
        BY <1>0, <3>2
      <4> HIDE DEF d
      <4> QED BY <1>0, <1>1, <4>1
    <3> QED BY <1>9, <3>1, <3>2 DEF ReadChunk
  <2>3. worker[w].pc = "read"
    BY <1>9 DEF ReadChunk
  <2> QED BY <2>1, <2>2, <2>3
<1>10. CASE WriteFails(w)
  BY <1>0, <1>1, <1>10, <1>s DEF WriteFails
<1>11. CASE ReadFails(w)
  <2>1. PICK s \in {"Paused", "Failed"} : Report(w, s, worker[w].dl)
    BY <1>11 DEF ReadFails
  <2>2. entries'[id].status = s
    BY <1>0, <1>1, <1>s, <2>1
  <2> QED BY <2>2
<1>12. CASE Finish(w)
  <2> DEFINE s == IF StatusOf(w) = "Downloading" THEN "Completed" ELSE StatusOf(w)
  <2>1. s \in Status /\ Report(w, s, worker[w].dl) /\ worker[w].pc = "read"
    BY <1>0, <1>12, <1>s DEF Finish
  <2>2. entries'[id].status = s
    BY <1>0, <1>1, <2>1
  <2> QED BY <1>0, <2>1, <2>2
<1> QED
  BY <1>3, <1>4, <1>5, <1>6, <1>7, <1>8, <1>9, <1>10, <1>11, <1>12 DEF WorkerStep

\* A step of a thread keeps every download held.
LEMMA HeldMoves ==
    ASSUME HeldInv, NEW w \in Workers, Moved(w), Told(w)
    PROVE  HeldInv'
<1> DEFINE t == worker'[w]
           i == worker[w].id
<1>0. /\ worker \in [Workers -> Thread] /\ t \in Thread /\ Live(w)
      /\ t.id = i /\ t.name = worker[w].name /\ t.pc # "idle"
      /\ worker' = [worker EXCEPT ![w] = t]
      /\ entries' \in [DOMAIN entries -> Entry]
      /\ UNCHANGED <<nextId, handle, saved>>
      /\ file' \in [Names -> Seq(Nat)]
  BY DEF HeldInv, Types, Moved
<1>1. \A v \in Workers : /\ v # w => worker'[v] = worker[v]
                         /\ worker'[v].id = worker[v].id
                         /\ worker'[v].name = worker[v].name
                         /\ worker'[v].pc = "idle" <=> worker[v].pc = "idle"
  BY <1>0 DEF Live
<1>2. Types'
  <2>1. entries' \in [DOMAIN entries' -> Entry]
    BY <1>0
  <2>2. worker' \in [Workers -> Thread]
    <3> HIDE DEF t
    <3> QED BY <1>0
  <2>3. saved' \in [DOMAIN saved' -> SavedEntry] /\ handle' \in [DOMAIN handle' -> Workers]
    BY <1>0 DEF HeldInv, Types
  <2> QED BY <1>0, <2>1, <2>2, <2>3 DEF Types
<1>3. Used' = Used
  <2>1. {v \in Workers : worker'[v].pc # "idle"} = {v \in Workers : worker[v].pc # "idle"}
    BY <1>1
  <2> QED BY <2>1 DEF Used
<1>4. Slots'
  <2>1. \A v \in Workers : IF v <= Used THEN worker'[v].pc # "idle" /\ worker'[v].id \in 1..Used
                                        /\ worker'[v].name \in Names
                           ELSE worker'[v] = Idle
    <3> TAKE v \in Workers
    <3>1. CASE v <= Used
      BY <1>1, <3>1 DEF HeldInv, Slots
    <3>2. CASE ~(v <= Used)
      <4>1. worker[v] = Idle
        BY <3>2 DEF HeldInv, Slots
      <4>2. v # w
        BY <1>0, <4>1, IdleThread DEF Live
      <4> QED BY <1>1, <3>2, <4>1, <4>2
    <3> QED BY <3>1, <3>2
  <2>2. DOMAIN entries' = DOMAIN entries
    BY <1>0
  <2> QED BY <1>0, <1>3, <2>1, <2>2 DEF HeldInv, Slots
<1>5. ASSUME NEW id \in DOMAIN entries PROVE Held(id)'
  <2> DEFINE h == handle[id]
  <2>1. /\ id \in DOMAIN handle /\ IsNewest(worker, h, id) /\ h \in Workers
        /\ entries[id].status = "Queued" => worker[h].pc \in {"start", "sent"}
        /\ entries[id].status = "Downloading" => \E v \in Workers : Live(v) /\ worker[v].id = id
    BY DEF HeldInv, Held, Types
  <2>2. id \in DOMAIN handle' /\ handle'[id] = h
    BY <1>0, <2>1
  <2>3. IsNewest(worker', h, id)
    BY <1>0, <1>1, <2>1, <2>2 DEF IsNewest
  <2>4. CASE id # i
    <3>1. entries'[id] = entries[id]
      BY <2>4 DEF Moved
    <3>2. h # w
      BY <2>1, <2>4 DEF IsNewest
    <3>3. entries'[id].status = "Queued" => worker'[h].pc \in {"start", "sent"}
      BY <1>1, <2>1, <3>1, <3>2
    <3>4. entries'[id].status = "Downloading" => \E v \in Workers : Live(v)' /\ worker'[v].id = id
      BY <1>1, <2>1, <2>4, <3>1 DEF Live
    <3> QED BY <2>2, <2>3, <3>3, <3>4 DEF Held
  <2>5. CASE id = i
    <3>1. /\ entries'[id].status = "Queued" =>
               /\ entries[id].status = "Queued"
               /\ worker[w].pc \in {"start", "sent"} => worker'[w].pc \in {"start", "sent"}
          /\ entries'[id].status = "Downloading" => worker'[w].pc # "done"
      BY <2>5 DEF Told
    <3>2. entries'[id].status = "Queued" => worker'[h].pc \in {"start", "sent"}
      BY <1>1, <2>1, <3>1
    <3>3. entries'[id].status = "Downloading" => \E v \in Workers : Live(v)' /\ worker'[v].id = id
      BY <1>0, <1>1, <2>5, <3>1 DEF Live
    <3> QED BY <2>2, <2>3, <3>2, <3>3 DEF Held
  <2> QED BY <2>4, <2>5
<1> QED BY <1>0, <1>2, <1>4, <1>5 DEF HeldInv

-----------------------------------------------------------------------------
(* Spawning.                                                               *)

\* What spawning threads for the downloads ids leaves: the old threads, perhaps
\* ended, in their places, and behind them the newest thread of each download.
After(ids, threads, ents) ==
    /\ worker' \in [Workers -> Thread]
    /\ Cardinality(ids) \in Nat
    /\ Used + Cardinality(ids) \in 0..MaxWorkers
    /\ Used' = Used + Cardinality(ids)
    /\ \A w \in Workers : IF w <= Used'
                          THEN worker'[w].pc # "idle" /\ worker'[w].id \in 1..Used'
                               /\ worker'[w].name \in Names
                          ELSE worker'[w] = Idle
    /\ \A w \in Workers : w <= Used => worker'[w] = threads[w]
    /\ \A w \in Workers : w > Used => worker[w] = Idle
    /\ \A w \in Workers : w > Used /\ w <= Used' =>
         \E i \in ids : worker'[w] = New(i, ents[i].name)
    /\ \A v, w \in Workers : v > Used /\ v <= Used' /\ w > Used /\ w <= Used'
                             /\ worker'[v].id = worker'[w].id => v = w
    /\ \A i \in ids : LET h == NewestOf(worker', i)
                      IN  h \in Workers /\ IsNewest(worker', h, i) /\ h > Used
                          /\ worker'[h] = New(i, ents[i].name)

\* The threads before are those of now, but for what has become of them.
Before(threads) ==
    /\ threads \in [Workers -> Thread]
    /\ \A w \in Workers : /\ threads[w].id = worker[w].id
                          /\ threads[w].name = worker[w].name
                          /\ threads[w].pc = "idle" <=> worker[w].pc = "idle"
                          /\ worker[w] = Idle => threads[w] = Idle

\* Spawned leaves the threads so, whatever the old ones have become.
LEMMA SpawnLeaves ==
    ASSUME Types, Slots, NEW ids \in SUBSET Ids, Spawns(ids) <= MaxWorkers,
           ids \subseteq 1..(Used + Cardinality(ids)),
           NEW threads, Before(threads),
           NEW ents, \A i \in ids : ents[i].name \in Names,
           worker' = Spawned(threads, ents, ids)
    PROVE  After(ids, threads, ents)
<1>b. /\ threads \in [Workers -> Thread]
      /\ \A w \in Workers : /\ threads[w].id = worker[w].id
                            /\ threads[w].name = worker[w].name
                            /\ threads[w].pc = "idle" <=> worker[w].pc = "idle"
                            /\ worker[w] = Idle => threads[w] = Idle
  BY DEF Before
<1> DEFINE n == Used
           N == Cardinality(ids)
           new == (n + 1)..(n + N)
<1>1. /\ N \in Nat /\ n + N <= MaxWorkers /\ n \in Nat
      /\ new \subseteq Workers
      /\ \A i \in ids : \E w \in new : worker'[w] = New(i, ents[i].name)
      /\ \A w \in new : \E i \in ids : worker'[w] = New(i, ents[i].name)
      /\ \A v, w \in new : worker'[v].id = worker'[w].id => v = w
      /\ \A w \in Workers \ new : worker'[w] = threads[w]
      /\ DOMAIN worker' = Workers
  <2>1. n \in Nat
    BY DEF Slots
  <2> QED BY <2>1, Spawning
<1>f. worker' = [w \in Workers |-> worker'[w]]
  BY DEF Spawned
<1>o. \A w \in Workers : IF w <= n THEN worker[w].pc # "idle" /\ worker[w].id \in 1..n
                                        /\ worker[w].name \in Names
                         ELSE worker[w] = Idle
  BY DEF Slots
<1>i. ids \subseteq 1..(n + N) /\ ids \subseteq Ids /\ \A i \in ids : ents[i].name \in Names
  OBVIOUS
<1> HIDE DEF n, N
<1>u. \A v, w \in new : worker'[v].id = worker'[w].id => v = w
  BY <1>1
<1>2. \A w \in Workers : w \in new <=> w > n /\ w <= n + N
  BY <1>1 DEF Workers
<1>3. \A w \in new : \E i \in ids : /\ worker'[w] = New(i, ents[i].name)
                                    /\ worker'[w] \in Thread /\ worker'[w].pc = "start"
                                    /\ worker'[w].id = i /\ worker'[w].name \in Names
  BY <1>1, <1>i, NewThread
<1>4. worker' \in [Workers -> Thread]
  <2>1. \A w \in Workers : worker'[w] \in Thread
    BY <1>1, <1>3, <1>b
  <2> QED BY <1>f, <2>1
<1>5. \A w \in Workers : IF w <= n + N
                         THEN worker'[w].pc # "idle" /\ worker'[w].id \in 1..(n + N)
                              /\ worker'[w].name \in Names
                         ELSE worker'[w] = Idle
  <2> TAKE w \in Workers
  <2>0. w \in Nat
    BY DEF Workers
  <2>1. CASE w \in new
    BY <1>2, <1>3, <1>i, <2>1
  <2>2. CASE w <= n
    <3>1. w \notin new /\ w <= n + N
      BY <1>1, <1>2, <2>0, <2>2
    <3>2. worker'[w] = threads[w]
      BY <1>1, <3>1
    <3>3. worker[w].id \in 1..(n + N)
      BY <1>1, <1>o, <2>2
    <3> QED BY <1>b, <1>o, <2>2, <3>1, <3>2, <3>3
  <2>3. CASE ~(w <= n + N)
    <3>1. w \notin new /\ ~(w <= n)
      BY <1>1, <1>2, <2>0, <2>3
    <3> QED BY <1>1, <1>b, <1>o, <2>3, <3>1
  <2>4. w \in new \/ w <= n \/ ~(w <= n + N)
    BY <1>1, <1>2, <2>0
  <2> QED BY <2>1, <2>2, <2>3, <2>4
<1>6. Used' = n + N
  <2>1. \A w \in Workers : worker'[w].pc # "idle" <=> w <= n + N
    BY <1>5, IdleThread
  <2>2. {w \in Workers : worker'[w].pc # "idle"} = {w \in Workers : w <= n + N}
    BY <2>1
  <2>3. n + N \in 0..MaxWorkers
    BY <1>1
  <2>4. Cardinality({w \in Workers : w <= n + N}) = n + N
    BY <2>3, CountFirst
  <2> QED BY <2>2, <2>4 DEF Used
<1>7. \A w \in Workers : w <= n => worker'[w] = threads[w]
  <2> TAKE w \in Workers
  <2>0. w \in Nat
    BY DEF Workers
  <2>1. w <= n => w \notin new
    BY <1>1, <1>2, <2>0
  <2> QED BY <1>1, <2>1
<1>8. \A w \in Workers : w > n => worker[w] = Idle
  <2> TAKE w \in Workers
  <2>0. w \in Nat
    BY DEF Workers
  <2> QED BY <1>1, <1>o, <2>0
<1>9. ASSUME NEW i \in ids
      PROVE  LET h == NewestOf(worker', i)
             IN  h \in Workers /\ IsNewest(worker', h, i) /\ h > n
                 /\ worker'[h] = New(i, ents[i].name)
  <2>1. PICK h \in new : worker'[h] = New(i, ents[i].name)
    BY <1>1
  <2>2. worker'[h].id = i /\ h \in Workers /\ h > n /\ h \in Nat
    BY <1>1, <1>2, <1>i, <2>1, NewThread
  <2>3. \A w \in Workers : worker'[w].id = i => w <= h
    <3> TAKE w \in Workers
    <3>0. w \in Nat
      BY DEF Workers
    <3>1. CASE w \in new
      <4>1. worker'[w].id = i => w = h
        BY <2>2, <3>1, <1>u
      <4> QED BY <2>2, <4>1
    <3>2. CASE w <= n
      BY <1>1, <2>2, <3>0, <3>2
    <3>3. CASE ~(w <= n + N)
      BY <1>5, <1>i, <2>2, <3>3, IdleThread
    <3>4. w \in new \/ w <= n \/ ~(w <= n + N)
      BY <1>1, <1>2, <3>0
    <3> QED BY <3>1, <3>2, <3>3, <3>4
  <2>4. NewestOf(worker', i) = h
    <3> DEFINE S == {w \in Workers : worker'[w].id = i}
    <3>1. S \in SUBSET Int /\ h \in S /\ \A x \in S : x <= h
      BY <2>2, <2>3 DEF Workers
    <3> HIDE DEF S
    <3>2. Max(S) = h
      BY <3>1, MaxIs
    <3>3. NewestOf(worker', i) = Max(S)
      BY DEF S, NewestOf
    <3> QED BY <3>2, <3>3
  <2>5. IsNewest(worker', h, i)
    BY <2>2, <2>3 DEF IsNewest
  <2> QED BY <2>1, <2>2, <2>4, <2>5
<1>10. n + N \in 0..MaxWorkers
  BY <1>1
<1>11. \A w \in Workers : w > n /\ w <= n + N => \E i \in ids : worker'[w] = New(i, ents[i].name)
  BY <1>2, <1>3
<1>12. \A v, w \in Workers : v > n /\ v <= n + N /\ w > n /\ w <= n + N
                             /\ worker'[v].id = worker'[w].id => v = w
  BY <1>1, <1>2
<1> QED BY <1>1, <1>4, <1>5, <1>6, <1>7, <1>8, <1>9, <1>10, <1>11, <1>12 DEF n, N, After

\* One download needs one thread.
LEMMA One == \A x : Cardinality({x}) = 1
BY FS_Singleton

\* The threads of now come before a thread is spawned.
LEMMA BeforeSpawn == Types => Before(worker)
BY DEF Types, Before

\* A download whose thread is not spawned stays held, and one whose thread is is.
LEMMA OthersHeld ==
    ASSUME HeldInv, NEW ids, NEW ents, After(ids, worker, ents), ids \subseteq Ids,
           \A i \in ids : ents[i].name \in Names,
           NEW id \in DOMAIN entries, id \notin ids,
           entries'[id] = entries[id], id \in DOMAIN handle', handle'[id] = handle[id]
    PROVE  Held(id)'
<1> DEFINE h == handle[id]
<1>1. /\ id \in DOMAIN handle /\ IsNewest(worker, h, id) /\ h \in Workers
      /\ entries[id].status = "Queued" => worker[h].pc \in {"start", "sent"}
      /\ entries[id].status = "Downloading" => \E v \in Workers : Live(v) /\ worker[v].id = id
      /\ id # 0
  BY DEF HeldInv, Held, Types, Slots
<1>2. Used \in Nat /\ \A w \in Workers : w \in Nat
  BY DEF HeldInv, Slots, Workers
<1>3. \A w \in Workers : w > Used => worker[w] = Idle /\ worker'[w].id # id
  <2> SUFFICES ASSUME NEW w \in Workers, w > Used PROVE worker[w] = Idle /\ worker'[w].id # id
    OBVIOUS
  <2>1. worker[w] = Idle
    BY DEF After
  <2>2. CASE w <= Used'
    <3>1. PICK i \in ids : worker'[w] = New(i, ents[i].name)
      BY <2>2 DEF After
    <3>2. worker'[w].id = i
      BY <3>1, NewThread
    <3> QED BY <2>1, <3>2
  <2>3. CASE ~(w <= Used')
    <3>1. worker'[w] = Idle
      BY <2>3 DEF After
    <3> QED BY <1>1, <2>1, <3>1, IdleThread
  <2> QED BY <2>2, <2>3
<1>4. \A w \in Workers : ~(w > Used) => worker'[w] = worker[w]
  BY <1>2 DEF After
<1>5. \A w \in Workers : worker[w].id = id => worker'[w] = worker[w]
  BY <1>1, <1>3, <1>4, IdleThread
<1>6. \A w \in Workers : worker'[w].id = id => worker'[w] = worker[w]
  BY <1>3, <1>4
<1>7. worker[h].id = id /\ \A w \in Workers : worker[w].id = id => w <= h
  BY <1>1 DEF IsNewest
<1>8. worker'[h] = worker[h]
  BY <1>1, <1>5, <1>7
<1>9. IsNewest(worker', h, id)
  BY <1>6, <1>7, <1>8 DEF IsNewest
<1>10. (\E v \in Workers : Live(v) /\ worker[v].id = id) =>
          \E v \in Workers : Live(v)' /\ worker'[v].id = id
  <2> SUFFICES ASSUME NEW v \in Workers, Live(v), worker[v].id = id
               PROVE  \E x \in Workers : Live(x)' /\ worker'[x].id = id
    OBVIOUS
  <2>1. worker'[v] = worker[v]
    BY <1>5
  <2> QED BY <2>1 DEF Live
<1>11. handle'[id] = h
  OBVIOUS
<1> HIDE DEF h
<1> QED BY <1>1, <1>8, <1>9, <1>10, <1>11 DEF Held

\* A download whose thread is spawned is held.
LEMMA SpawnedHeld ==
    ASSUME NEW ids, NEW threads, NEW ents, After(ids, threads, ents), ids \subseteq Ids,
           \A i \in ids : ents[i].name \in Names,
           NEW i \in ids, i \in DOMAIN handle', handle'[i] = NewestOf(worker', i),
           entries'[i].status = "Queued"
    PROVE  Held(i)' /\ handle'[i] \in Workers
<1> DEFINE h == NewestOf(worker', i)
<1>1. h \in Workers /\ IsNewest(worker', h, i) /\ worker'[h] = New(i, ents[i].name)
  BY DEF After
<1>2. handle'[i] = h
  OBVIOUS
<1> HIDE DEF h
<1>3. worker'[h].pc = "start"
  BY <1>1, NewThread
<1> QED BY <1>1, <1>2, <1>3 DEF Held

\* Where the threads stand after a spawn.
LEMMA SlotsAfter ==
    ASSUME HeldInv, NEW ids, NEW threads, NEW ents, After(ids, threads, ents),
           nextId' \in 1..(Used' + 1), DOMAIN entries' \subseteq 1..(nextId' - 1),
           UNCHANGED saved
    PROVE  Slots'
<1>1. Used' \in 0..MaxWorkers /\ Used' >= Used /\ Used \in Nat
  BY DEF After, HeldInv, Slots
<1>2. \A w \in Workers : IF w <= Used'
                         THEN worker'[w].pc # "idle" /\ worker'[w].id \in 1..Used'
                              /\ worker'[w].name \in Names
                         ELSE worker'[w] = Idle
  BY DEF After
<1>3. DOMAIN saved' \subseteq 1..Used'
  BY <1>1 DEF HeldInv, Slots
<1> QED BY <1>1, <1>2, <1>3 DEF Slots

\* start_download keeps every download held: the ids it gives out are new.
LEMMA HeldStart ==
    ASSUME HeldInv, NEW n \in Names, Start(n)
    PROVE  HeldInv'
<1>0. PICK x : x = nextId
  OBVIOUS
<1> DEFINE e == [name |-> n, status |-> "Queued", done |-> 0]
           ids == {x}
<1>1. /\ Spawns(ids) <= MaxWorkers
      /\ entries' = Put(entries, x, e)
      /\ worker' = Spawned(worker, entries', ids)
      /\ handle' = Put(handle, x, NewestOf(worker', x))
      /\ nextId' = x + 1
      /\ UNCHANGED <<file, saved>>
  BY <1>0 DEF Start
<1>2. e \in Entry
  BY DEF Entry, Status
<1>3. /\ entries' \in [DOMAIN entries \cup ids -> Entry] /\ entries'[x] = e
      /\ \A j \in DOMAIN entries : j # x => entries'[j] = entries[j]
  <2>1. entries \in [DOMAIN entries -> Entry]
    BY DEF HeldInv, Types
  <2> HIDE DEF e
  <2> QED BY <1>1, <1>2, <2>1 DEF Put
<1>4. x \in Ids /\ ids \subseteq 1..(Used + Cardinality(ids)) /\ Cardinality(ids) = 1
  <2>1. Cardinality(ids) = 1
    BY One
  <2>2. Used \in Nat /\ Used + 1 <= MaxWorkers /\ x \in 1..(Used + 1)
    BY <1>0, <1>1, <2>1 DEF Spawns, Used, HeldInv, Slots
  <2> QED BY <2>1, <2>2 DEF Ids
<1>5. \A i \in ids : entries'[i].name \in Names
  BY <1>3
<1>6. After(ids, worker, entries')
  <2> HIDE DEF ids
  <2>1. ids \in SUBSET Ids
    BY <1>4 DEF ids
  <2> QED BY <1>1, <1>4, <1>5, <2>1, BeforeSpawn, SpawnLeaves DEF HeldInv
<1>7. Held(x)' /\ handle'[x] \in Workers
  <2>1. x \in DOMAIN handle' /\ handle'[x] = NewestOf(worker', x)
    BY <1>1 DEF Put
  <2>2. entries'[x].status = "Queued"
    BY <1>3
  <2> HIDE DEF ids
  <2>3. ids \subseteq Ids /\ x \in ids
    BY <1>4 DEF ids
  <2> QED BY <1>5, <1>6, <2>1, <2>2, <2>3, SpawnedHeld
<1>8. /\ handle' \in [DOMAIN handle \cup ids -> Workers]
      /\ \A j \in DOMAIN handle : j # x => handle'[j] = handle[j]
  <2> DEFINE h == NewestOf(worker', x)
  <2>1. handle \in [DOMAIN handle -> Workers] /\ handle' = Put(handle, x, h)
    BY <1>1 DEF HeldInv, Types
  <2>2. h \in Workers
    BY <1>4, <1>6 DEF After
  <2> HIDE DEF h
  <2> QED BY <2>1, <2>2 DEF Put
<1>9. ASSUME NEW id \in DOMAIN entries PROVE Held(id)'
  <2>1. id # x /\ id \in DOMAIN handle
    BY <1>0 DEF HeldInv, Slots, Held
  <2>2. /\ id \notin ids /\ entries'[id] = entries[id]
        /\ id \in DOMAIN handle' /\ handle'[id] = handle[id] /\ ids \subseteq Ids
    BY <1>3, <1>4, <1>8, <2>1
  <2> HIDE DEF ids
  <2> QED BY <1>5, <1>6, <2>2, OthersHeld
<1>10. Types'
  <2>1. DOMAIN entries' = DOMAIN entries \cup ids /\ DOMAIN handle' = DOMAIN handle \cup ids
    BY <1>3, <1>8
  <2>2. worker' \in [Workers -> Thread]
    BY <1>6 DEF After
  <2> QED BY <1>1, <1>3, <1>8, <2>1, <2>2 DEF Types, HeldInv
<1>11. Slots'
  <2>1. Used' = Used + 1 /\ Used \in Nat /\ x \in 1..(Used + 1)
    BY <1>0, <1>4, <1>6 DEF After, HeldInv, Slots
  <2>2. DOMAIN entries' \subseteq 1..(nextId' - 1)
    BY <1>0, <1>1, <1>3, <2>1 DEF HeldInv, Slots
  <2>3. nextId' \in 1..(Used' + 1)
    BY <1>1, <2>1
  <2> HIDE DEF ids
  <2> QED BY <1>1, <1>6, <2>2, <2>3, SlotsAfter
<1>12. DOMAIN entries' = DOMAIN entries \cup ids
  BY <1>3
<1>13. \A id \in DOMAIN entries' : Held(id)'
  BY <1>7, <1>9, <1>12
<1> QED BY <1>10, <1>11, <1>13 DEF HeldInv

-----------------------------------------------------------------------------
(* The steps of the window and of the program.                             *)

\* A step that spawns no thread and moves none.
LEMMA NoThreadMoves ==
    ASSUME HeldInv, UNCHANGED <<nextId, file>>,
           worker' \in [Workers -> Thread],
           \A w \in Workers : /\ worker'[w].pc = worker[w].pc
                              /\ worker'[w].id = worker[w].id
                              /\ worker'[w].name = worker[w].name
                              /\ worker[w] = Idle => worker'[w] = Idle,
           entries' \in [DOMAIN entries' -> Entry], DOMAIN entries' \subseteq DOMAIN entries,
           \A id \in DOMAIN entries' : entries'[id].status \in {"Queued", "Downloading"} =>
               entries'[id].status = entries[id].status,
           handle' \in [DOMAIN handle' -> Workers],
           \A id \in DOMAIN entries' : id \in DOMAIN handle' /\ handle'[id] = handle[id],
           saved' \in [DOMAIN saved' -> SavedEntry], DOMAIN saved' \subseteq 1..Used
    PROVE  HeldInv'
<1>1. Types'
  BY DEF HeldInv, Types
<1>2. Used' = Used
  <2>1. {v \in Workers : worker'[v].pc # "idle"} = {v \in Workers : worker[v].pc # "idle"}
    OBVIOUS
  <2> QED BY <2>1 DEF Used
<1>3. Slots'
  BY <1>2 DEF HeldInv, Slots
<1>4. ASSUME NEW id \in DOMAIN entries' PROVE Held(id)'
  <2> DEFINE h == handle[id]
  <2>1. /\ IsNewest(worker, h, id) /\ h \in Workers
        /\ entries[id].status = "Queued" => worker[h].pc \in {"start", "sent"}
        /\ entries[id].status = "Downloading" => \E v \in Workers : Live(v) /\ worker[v].id = id
    BY DEF HeldInv, Held, Types
  <2>2. id \in DOMAIN handle' /\ handle'[id] = h
    OBVIOUS
  <2> HIDE DEF h
  <2>3. IsNewest(worker', h, id)
    BY <2>1 DEF IsNewest
  <2>4. entries'[id].status = "Queued" => worker'[h].pc \in {"start", "sent"}
    BY <2>1
  <2>5. entries'[id].status = "Downloading" => \E v \in Workers : Live(v)' /\ worker'[v].id = id
    BY <2>1 DEF Live
  <2> QED BY <2>2, <2>3, <2>4, <2>5 DEF Held
<1> QED BY <1>1, <1>3, <1>4 DEF HeldInv

\* The flag of a thread.
LEMMA CancelIs ==
    ASSUME HeldInv, NEW id \in DOMAIN entries
    PROVE  /\ Cancelled(id) \in [Workers -> Thread]
           /\ \A w \in Workers : /\ Cancelled(id)[w].pc = worker[w].pc
                                 /\ Cancelled(id)[w].id = worker[w].id
                                 /\ Cancelled(id)[w].name = worker[w].name
                                 /\ Cancelled(id)[w].start = worker[w].start
                                 /\ Cancelled(id)[w].dl = worker[w].dl
                                 /\ Cancelled(id)[w].rest = worker[w].rest
                                 /\ worker[w] = Idle => Cancelled(id)[w] = Idle
<1> DEFINE h == handle[id]
           t == worker[h]
           x == [t EXCEPT !.cancel = TRUE]
<1>1. /\ id \in DOMAIN handle /\ h \in Workers /\ t.id = id /\ id # 0
      /\ worker \in [Workers -> Thread] /\ t \in Thread
  BY DEF HeldInv, Held, Types, Slots, IsNewest
<1>2. Cancelled(id) = [worker EXCEPT ![h] = x]
  BY <1>1 DEF Cancelled
<1>3. t # Idle
  BY <1>1, IdleThread
<1> HIDE DEF t
<1>4. /\ x \in Thread /\ x.pc = t.pc /\ x.id = t.id /\ x.name = t.name
      /\ x.start = t.start /\ x.dl = t.dl /\ x.rest = t.rest
  BY <1>1 DEF Thread
<1> HIDE DEF x, h
<1>5. [worker EXCEPT ![h] = x] \in [Workers -> Thread]
  BY <1>1, <1>4
<1>6. ASSUME NEW w \in Workers
      PROVE  [worker EXCEPT ![h] = x][w] = IF w = h THEN x ELSE worker[w]
  BY <1>1
<1> QED BY <1>1, <1>2, <1>3, <1>4, <1>5, <1>6 DEF t

\* pause_download sets a flag and a status.
LEMMA HeldPause ==
    ASSUME HeldInv, NEW id \in DOMAIN entries, Pause(id)
    PROVE  HeldInv'
<1>1. worker' = Cancelled(id) /\ UNCHANGED <<nextId, handle, file, saved>>
  BY DEF Pause
<1>2. /\ entries' \in [DOMAIN entries -> Entry]
      /\ \A i \in DOMAIN entries : entries'[i].status \in {"Queued", "Downloading"} =>
               entries'[i].status = entries[i].status
  <2>0. entries \in [DOMAIN entries -> Entry]
    BY DEF HeldInv, Types
  <2>1. CASE UNCHANGED entries
    BY <2>0, <2>1
  <2>2. CASE entries' = [entries EXCEPT ![id].status = "Paused"]
    <3> DEFINE e == entries[id]
               x == [e EXCEPT !.status = "Paused"]
    <3>1. e \in Entry /\ entries' = [entries EXCEPT ![id] = x]
      BY <2>0, <2>2
    <3> HIDE DEF e
    <3>2. x \in Entry /\ x.status = "Paused"
      BY <3>1 DEF Entry, Status
    <3> HIDE DEF x
    <3> QED BY <2>0, <3>1, <3>2
  <2> QED BY <2>1, <2>2 DEF Pause
<1>3. \A i \in DOMAIN entries : i \in DOMAIN handle
  BY DEF HeldInv, Held
<1>4. saved \in [DOMAIN saved -> SavedEntry] /\ handle \in [DOMAIN handle -> Workers]
      /\ DOMAIN saved \subseteq 1..Used
  BY DEF HeldInv, Types, Slots
<1>5. DOMAIN entries' = DOMAIN entries
  BY <1>2
<1> QED BY <1>1, <1>2, <1>3, <1>4, <1>5, CancelIs, NoThreadMoves

\* remove_download takes a download and its handle away together.
LEMMA HeldRemove ==
    ASSUME HeldInv, NEW id \in DOMAIN entries, Remove(id)
    PROVE  HeldInv'
<1>1. /\ worker' = Cancelled(id) /\ UNCHANGED <<nextId, file, saved>>
      /\ handle' = [i \in DOMAIN handle \ {id} |-> handle[i]]
      /\ entries' = [i \in DOMAIN entries \ {id} |-> entries[i]]
  BY DEF Remove
<1>2. /\ entries \in [DOMAIN entries -> Entry] /\ handle \in [DOMAIN handle -> Workers]
      /\ saved \in [DOMAIN saved -> SavedEntry] /\ DOMAIN saved \subseteq 1..Used
      /\ \A i \in DOMAIN entries : i \in DOMAIN handle
  BY DEF HeldInv, Types, Slots, Held
<1>3. /\ entries' \in [DOMAIN entries \ {id} -> Entry]
      /\ \A i \in DOMAIN entries \ {id} : entries'[i] = entries[i]
      /\ handle' \in [DOMAIN handle \ {id} -> Workers]
      /\ \A i \in DOMAIN handle \ {id} : handle'[i] = handle[i]
  BY <1>1, <1>2
<1>4. DOMAIN entries' = DOMAIN entries \ {id} /\ DOMAIN handle' = DOMAIN handle \ {id}
  BY <1>3
<1>5. UNCHANGED saved
  BY <1>1
<1> QED BY <1>1, <1>2, <1>3, <1>4, <1>5, CancelIs, NoThreadMoves

\* Saving at the end of a frame touches no download.
LEMMA HeldSave == HeldInv /\ Save => HeldInv'
<1> SUFFICES ASSUME HeldInv, Save PROVE HeldInv'
  OBVIOUS
<1> DEFINE active == Unfinished(entries)
           s == [i \in active |-> [name |-> entries[i].name, done |-> entries[i].done]]
<1>1. /\ UNCHANGED <<entries, nextId, worker, handle, file>>
      /\ saved' = saved \/ saved' = s
  BY DEF Save
<1>2. /\ entries \in [DOMAIN entries -> Entry] /\ handle \in [DOMAIN handle -> Workers]
      /\ worker \in [Workers -> Thread]
      /\ saved \in [DOMAIN saved -> SavedEntry] /\ DOMAIN saved \subseteq 1..Used
      /\ DOMAIN entries \subseteq 1..Used
      /\ \A i \in DOMAIN entries : i \in DOMAIN handle
  BY DEF HeldInv, Types, Slots, Held
<1>3. saved' \in [DOMAIN saved' -> SavedEntry] /\ DOMAIN saved' \subseteq 1..Used
  <2>1. active \subseteq DOMAIN entries
    BY DEF Unfinished
  <2>2. s \in [active -> SavedEntry]
    <3>1. ASSUME NEW i \in active
          PROVE  [name |-> entries[i].name, done |-> entries[i].done] \in SavedEntry
      BY <1>2, <2>1 DEF Entry, SavedEntry
    <3> QED BY <3>1
  <2> HIDE DEF s, active
  <2>3. DOMAIN s = active
    BY <2>2
  <2> QED BY <1>1, <1>2, <2>1, <2>2, <2>3
<1> HIDE DEF s, active
<1>4. UNCHANGED <<entries, handle, worker, nextId, file>>
  BY <1>1
<1> QED BY <1>2, <1>3, <1>4, NoThreadMoves

\* resume_download puts the new thread's handle in the place of the old one.
LEMMA HeldResume ==
    ASSUME HeldInv, NEW id \in DOMAIN entries, Resume(id)
    PROVE  HeldInv'
<1> DEFINE ids == {id}
           e == entries[id]
           x == [e EXCEPT !.status = "Queued"]
<1>1. /\ Spawns(ids) <= MaxWorkers
      /\ entries' = [entries EXCEPT ![id].status = "Queued"]
      /\ worker' = Spawned(worker, entries, ids)
      /\ handle' = Put(handle, id, NewestOf(worker', id))
      /\ UNCHANGED <<nextId, file, saved>>
  BY DEF Resume
<1>2. entries \in [DOMAIN entries -> Entry] /\ e \in Entry
      /\ handle \in [DOMAIN handle -> Workers]
  BY DEF HeldInv, Types
<1>3. /\ entries' \in [DOMAIN entries -> Entry] /\ entries'[id].status = "Queued"
      /\ \A j \in DOMAIN entries : j # id => entries'[j] = entries[j]
  <2>1. entries' = [entries EXCEPT ![id] = x]
    BY <1>1, <1>2
  <2> HIDE DEF e
  <2>2. x \in Entry /\ x.status = "Queued"
    BY <1>2 DEF Entry, Status
  <2> HIDE DEF x
  <2> QED BY <1>2, <2>1, <2>2
<1>4. id \in Ids /\ ids \subseteq 1..(Used + Cardinality(ids))
  <2>1. Cardinality(ids) = 1
    BY One
  <2>2. Used \in 0..MaxWorkers /\ nextId \in 1..(Used + 1) /\ id \in 1..(nextId - 1)
    BY DEF HeldInv, Slots
  <2> QED BY <2>1, <2>2 DEF Ids
<1>5. \A i \in ids : entries[i].name \in Names
  BY <1>2 DEF Entry
<1>6. After(ids, worker, entries)
  <2> HIDE DEF ids
  <2>1. ids \in SUBSET Ids
    BY <1>4 DEF ids
  <2> QED BY <1>1, <1>4, <1>5, <2>1, BeforeSpawn, SpawnLeaves DEF HeldInv
<1>7. Held(id)' /\ handle'[id] \in Workers
  <2>1. id \in DOMAIN handle' /\ handle'[id] = NewestOf(worker', id)
    BY <1>1 DEF Put
  <2> HIDE DEF ids
  <2>3. ids \subseteq Ids /\ id \in ids
    BY <1>4 DEF ids
  <2> QED BY <1>3, <1>5, <1>6, <2>1, <2>3, SpawnedHeld
<1>8. /\ handle' \in [DOMAIN handle \cup ids -> Workers]
      /\ \A j \in DOMAIN handle : j # id => handle'[j] = handle[j]
  <2> DEFINE h == NewestOf(worker', id)
  <2>1. handle' = Put(handle, id, h)
    BY <1>1
  <2>2. h \in Workers
    BY <1>4, <1>6 DEF After
  <2> HIDE DEF h
  <2> QED BY <1>2, <2>1, <2>2 DEF Put
<1>9. ASSUME NEW i \in DOMAIN entries, i # id PROVE Held(i)'
  <2>1. i \in DOMAIN handle
    BY DEF HeldInv, Held
  <2>2. /\ i \notin ids /\ entries'[i] = entries[i]
        /\ i \in DOMAIN handle' /\ handle'[i] = handle[i] /\ ids \subseteq Ids
    BY <1>3, <1>4, <1>8, <1>9, <2>1
  <2> HIDE DEF ids
  <2> QED BY <1>5, <1>6, <2>2, OthersHeld
<1>12. DOMAIN entries' = DOMAIN entries
  BY <1>3
<1>10. Types'
  <2>1. DOMAIN handle' = DOMAIN handle \cup ids
    BY <1>8
  <2>2. worker' \in [Workers -> Thread]
    BY <1>6 DEF After
  <2> QED BY <1>1, <1>3, <1>8, <1>12, <2>1, <2>2 DEF Types, HeldInv
<1>11. Slots'
  <2>1. Used' = Used + Cardinality(ids) /\ Cardinality(ids) = 1
    BY <1>6, One DEF After
  <2>2. Used \in Nat /\ nextId \in 1..(Used + 1)
    BY DEF HeldInv, Slots
  <2>3. nextId' \in 1..(Used' + 1)
    BY <1>1, <2>1, <2>2
  <2>4. DOMAIN entries' \subseteq 1..(nextId' - 1)
    BY <1>1, <1>12 DEF HeldInv, Slots
  <2> HIDE DEF ids
  <2> QED BY <1>1, <1>6, <2>3, <2>4, SlotsAfter
<1>13. \A i \in DOMAIN entries' : Held(i)'
  BY <1>7, <1>9, <1>12
<1> QED BY <1>10, <1>11, <1>13 DEF HeldInv

\* What a restart leaves: the threads of before ended, and one for each download
\* that was saved.
LEMMA RestartLeaves ==
    ASSUME HeldInv, Restart, NEW ids, ids = DOMAIN saved
    PROVE  \E threads, ents :
               /\ After(ids, threads, ents) /\ ids \subseteq Ids
               /\ ids \subseteq 1..(nextId' - 1) /\ nextId' \in 1..(Used + 1) /\ nextId' \in Nat
               /\ entries' = ents /\ ents \in [ids -> Entry] /\ DOMAIN ents = ids
               /\ \A i \in ids : ents[i].status = "Queued" /\ ents[i].name \in Names
               /\ \A w \in Workers : threads[w].pc \in {"idle", "done"}
               /\ handle' = [i \in ids |-> NewestOf(worker', i)]
               /\ UNCHANGED <<file, saved>>
<1> DEFINE loaded == [i \in ids |->
                    [name |-> saved[i].name, status |-> "Queued", done |-> saved[i].done]]
           killed == [w \in Workers |-> IF Live(w) THEN [worker[w] EXCEPT !.pc = "done"]
                                                ELSE worker[w]]
<1>1. /\ Spawns(ids) <= MaxWorkers
      /\ entries' = loaded
      /\ nextId' = IF ids = {} THEN 1 ELSE Max(ids) + 1
      /\ worker' = Spawned(killed, loaded, ids)
      /\ handle' = [i \in ids |-> NewestOf(worker', i)]
      /\ UNCHANGED <<file, saved>>
  BY DEF Restart
<1>2. /\ saved \in [ids -> SavedEntry] /\ ids \subseteq 1..Used /\ Used \in 0..MaxWorkers
      /\ worker \in [Workers -> Thread]
  BY DEF HeldInv, Types, Slots
<1>3. loaded \in [ids -> Entry] /\ \A i \in ids : loaded[i].status = "Queued"
  <2>1. ASSUME NEW i \in ids
        PROVE  [name |-> saved[i].name, status |-> "Queued", done |-> saved[i].done] \in Entry
    BY <1>2 DEF SavedEntry, Entry, Status
  <2> QED BY <2>1
<1>4. Before(killed)
  <2>1. ASSUME NEW w \in Workers
        PROVE  /\ killed[w] \in Thread
               /\ killed[w].id = worker[w].id
               /\ killed[w].name = worker[w].name
               /\ killed[w].pc = "idle" <=> worker[w].pc = "idle"
               /\ worker[w] = Idle => killed[w] = Idle
    <3> DEFINE t == worker[w]
               x == [t EXCEPT !.pc = "done"]
    <3>1. t \in Thread /\ killed[w] = IF Live(w) THEN x ELSE t
      BY <1>2
    <3> HIDE DEF t, killed
    <3>2. x \in Thread /\ x.id = t.id /\ x.name = t.name /\ x.pc = "done"
      BY <3>1 DEF Thread
    <3> HIDE DEF x
    <3>3. Live(w) => t.pc # "idle" /\ t # Idle
      BY IdleThread DEF Live, t
    <3> QED BY <3>1, <3>2, <3>3 DEF t
  <2>2. killed \in [Workers -> Thread]
    BY <2>1
  <2> HIDE DEF killed
  <2> QED BY <2>1, <2>2 DEF Before
<1>9. \A w \in Workers : killed[w].pc \in {"idle", "done"}
  <2> TAKE w \in Workers
  <2>1. worker[w] \in Thread /\ killed[w] = IF Live(w) THEN [worker[w] EXCEPT !.pc = "done"]
                                             ELSE worker[w]
    BY <1>2
  <2> QED BY <2>1 DEF Thread, Live
<1> HIDE DEF loaded, killed
<1>5. ids \in SUBSET Ids
  BY <1>2 DEF Ids
<1>6. ids \subseteq 1..(Used + Cardinality(ids))
  <2>1. Cardinality(ids) \in Nat
    BY <1>5, Ranks
  <2> QED BY <1>2, <2>1
<1>7. \A i \in ids : loaded[i].name \in Names
  BY <1>3 DEF Entry
<1>8. After(ids, killed, loaded)
  BY <1>1, <1>4, <1>5, <1>6, <1>7, SpawnLeaves DEF HeldInv
<1>12. nextId' \in 1..(Used + 1) /\ ids \subseteq 1..(nextId' - 1)
  <2>1. CASE ids = {}
    BY <1>1, <1>2, <2>1
  <2>2. CASE ids # {}
    <3>1. PICK m \in ids : \A i \in ids : i <= m
      <4>1. IsFiniteSet(ids) /\ ids \in SUBSET Int /\ Cardinality(ids) \in Nat
        BY <1>2, <1>5, Ranks
      <4>2. Cardinality(ids) \in 1..Cardinality(ids)
        <5>1. Cardinality(ids) # 0
          BY <2>2, <4>1, FS_EmptySet
        <5> QED BY <4>1, <5>1
      <4>3. PICK m \in ids : Rank(ids, m) = Cardinality(ids)
        BY <1>5, <4>2, Ranks
      <4>4. {j \in ids : j <= m} = ids
        <5> DEFINE S == {j \in ids : j <= m}
        <5>1. S \in SUBSET ids /\ Cardinality(S) = Cardinality(ids)
          BY <4>3 DEF Rank
        <5> HIDE DEF S
        <5>2. S = ids
          BY <4>1, <5>1, FS_Subset
        <5> QED BY <5>2 DEF S
      <4> QED BY <4>4
    <3>2. Max(ids) = m
      <4>1. ids \in SUBSET Int
        BY <1>2
      <4> QED BY <3>1, <4>1, MaxIs
    <3>3. nextId' = m + 1
      BY <1>1, <2>2, <3>2
    <3> QED BY <1>2, <3>1, <3>3
  <2> QED BY <2>1, <2>2
<1>13. nextId' \in Nat
  <2>1. Used + 1 \in Nat
    BY <1>2
  <2> QED BY <1>12, <2>1
<1> QED BY <1>1, <1>3, <1>5, <1>7, <1>8, <1>9, <1>12, <1>13

\* A restart gives every saved download a thread and a handle, also where ids
\* are given out again.
LEMMA HeldRestart == HeldInv /\ Restart => HeldInv'
<1> SUFFICES ASSUME HeldInv, Restart PROVE HeldInv'
  OBVIOUS
<1>0. PICK ids : ids = DOMAIN saved
  OBVIOUS
<1>1. PICK threads, ents :
               /\ After(ids, threads, ents) /\ ids \subseteq Ids
               /\ ids \subseteq 1..(nextId' - 1) /\ nextId' \in 1..(Used + 1)
               /\ entries' = ents /\ ents \in [ids -> Entry] /\ DOMAIN ents = ids
               /\ \A i \in ids : ents[i].status = "Queued" /\ ents[i].name \in Names
               /\ handle' = [i \in ids |-> NewestOf(worker', i)]
               /\ UNCHANGED <<file, saved>>
  BY <1>0, RestartLeaves
<1>2. ASSUME NEW i \in ids PROVE Held(i)' /\ handle'[i] \in Workers
  <2>1. /\ i \in DOMAIN handle' /\ handle'[i] = NewestOf(worker', i)
        /\ entries'[i].status = "Queued" /\ \A j \in ids : ents[j].name \in Names
        /\ After(ids, threads, ents) /\ ids \subseteq Ids
    BY <1>1
  <2> QED BY <2>1, SpawnedHeld
<1>3. DOMAIN entries' = ids /\ DOMAIN handle' = ids
  BY <1>1
<1>4. Types'
  <2>1. handle' \in [ids -> Workers]
    BY <1>1, <1>2
  <2>2. worker' \in [Workers -> Thread]
    BY <1>1 DEF After
  <2> QED BY <1>1, <1>3, <2>1, <2>2 DEF Types, HeldInv
<1>5. Slots'
  <2>1. Used \in Nat /\ Used' \in Nat /\ Used' >= Used
    BY <1>1 DEF After, HeldInv, Slots
  <2>2. nextId' \in 1..(Used' + 1)
    <3> DEFINE u == Used
               v == Used'
               n == nextId'
    <3>1. n \in 1..(u + 1) /\ u \in Nat /\ v \in Nat /\ v >= u
      BY <1>1, <2>1
    <3> HIDE DEF u, v, n
    <3>2. n \in 1..(v + 1)
      BY <3>1
    <3> QED BY <3>2 DEF v, n
  <2>3. After(ids, threads, ents) /\ DOMAIN entries' \subseteq 1..(nextId' - 1) /\ UNCHANGED saved
    BY <1>1, <1>3
  <2> QED BY <2>2, <2>3, SlotsAfter
<1> QED BY <1>2, <1>3, <1>4, <1>5 DEF HeldInv

\* Every step keeps every download held.
LEMMA HeldStep == HeldInv /\ [Next]_vars => HeldInv'
<1> SUFFICES ASSUME HeldInv, [Next]_vars PROVE HeldInv'
  OBVIOUS
<1>1. CASE UNCHANGED vars
  BY <1>1 DEF vars, HeldInv, Types, Slots, Held, Used, IsNewest, Live
<1>2. CASE UserStep
  BY <1>2, HeldStart, HeldPause, HeldResume, HeldRemove DEF UserStep
<1>3. CASE Save
  BY <1>3, HeldSave
<1>4. CASE Restart
  BY <1>4, HeldRestart
<1>5. CASE \E w \in Workers : WorkerStep(w)
  BY <1>5, WorkerMoves, WorkerTells, HeldMoves DEF HeldInv
<1> QED BY <1>1, <1>2, <1>3, <1>4, <1>5 DEF Next

\* In every environment (downloads resumed too early, servers that ignore the
\* range, full disks, shared names, restarts) a queued or running download has a
\* thread, and pause and remove reach the thread of its last attempt.
THEOREM DownloadsAreHeld == Spec => []ThreadIsHeld
<1>1. Spec => []HeldInv
  BY HeldInit, HeldStep, PTL DEF Spec
<1> QED BY <1>1, HeldGives, PTL

-----------------------------------------------------------------------------
(* CompletedIsWhole.                                                       *)

\* The chunks of a resource, and those that remain after d of them.
LEMMA ChunksAre ==
    /\ Resource = Chunks(Size)
    /\ Chunks(0) = <<>>
    /\ \A n \in Nat : Chunks(n) \in Seq(Nat) /\ Len(Chunks(n)) = n
    /\ \A n \in 0..Size : SubSeq(Resource, 1, n) = Chunks(n)
    /\ \A d \in 0..Size : SubSeq(Resource, d + 1, Size) = RestFrom(d)
<1>0. Size \in Nat
  OBVIOUS
<1>1. Resource = Chunks(Size)
  BY DEF Resource, Chunks
<1>2. Chunks(0) = <<>>
  BY DEF Chunks
<1>3. ASSUME NEW n \in Nat PROVE Chunks(n) \in Seq(Nat) /\ Len(Chunks(n)) = n
  <2>1. Chunks(n) \in [1..n -> Nat]
    BY DEF Chunks
  <2> QED BY <2>1
<1>4. Resource \in Seq(Nat) /\ Len(Resource) = Size /\ \A i \in 1..Size : Resource[i] = i
  BY <1>0, <1>1, <1>3 DEF Chunks
<1>5. ASSUME NEW n \in 0..Size PROVE SubSeq(Resource, 1, n) = Chunks(n)
  <2>1. n \in Int /\ \A i \in 1..n : Resource[i] \in Nat
    BY <1>0, <1>4
  <2>2. SubSeq(Resource, 1, n) = [i \in 1..n |-> Resource[i]]
    BY <1>0, <1>4
  <2>3. [i \in 1..n |-> Resource[i]] = Chunks(n)
    <3>1. \A i \in 1..n : Resource[i] = i
      BY <1>0, <1>4
    <3> QED BY <3>1 DEF Chunks
  <2> QED BY <2>2, <2>3
<1>6. ASSUME NEW d \in 0..Size PROVE SubSeq(Resource, d + 1, Size) = RestFrom(d)
  <2>1. SubSeq(Resource, d + 1, Size) = [i \in 1..(Size - d) |-> Resource[d + i]]
    BY <1>0, <1>4
  <2>2. \A i \in 1..(Size - d) : Resource[d + i] = d + i
    BY <1>0, <1>4
  <2> QED BY <2>1, <2>2 DEF RestFrom
<1> QED BY <1>1, <1>2, <1>3, <1>5, <1>6

\* What remains after d chunks: nothing at the end, else the next chunk and
\* the rest.
LEMMA RestIs ==
    ASSUME NEW d \in 0..Size
    PROVE  /\ RestFrom(d) \in Seq(Nat) /\ Len(RestFrom(d)) = Size - d
           /\ RestFrom(d) = <<>> => d = Size
           /\ RestFrom(d) # <<>> => /\ d + 1 \in 0..Size
                                    /\ Head(RestFrom(d)) = d + 1
                                    /\ Tail(RestFrom(d)) = RestFrom(d + 1)
<1>0. Size \in Nat /\ d \in Nat /\ Size - d \in Nat
  OBVIOUS
<1>1. RestFrom(d) \in [1..(Size - d) -> Nat]
  BY <1>0 DEF RestFrom
<1>2. RestFrom(d) \in Seq(Nat) /\ Len(RestFrom(d)) = Size - d
  BY <1>0, <1>1
<1>3. RestFrom(d) = <<>> => d = Size
  BY <1>0, <1>2
<1>4. ASSUME RestFrom(d) # <<>>
      PROVE  /\ d + 1 \in 0..Size
             /\ Head(RestFrom(d)) = d + 1
             /\ Tail(RestFrom(d)) = RestFrom(d + 1)
  <2>1. Size - d # 0
    BY <1>2, <1>4
  <2>2. d + 1 \in 0..Size /\ 1 \in 1..(Size - d)
    BY <1>0, <2>1
  <2>3. Head(RestFrom(d)) = d + 1
    BY <1>2, <1>4, <2>2 DEF RestFrom
  <2>4. Tail(RestFrom(d)) = [i \in 1..(Size - d - 1) |-> RestFrom(d)[i + 1]]
    <3> DEFINE r == RestFrom(d)
               m == Size - d
    <3>1. r \in Seq(Nat) /\ Len(r) = m /\ r # <<>> /\ m \in Nat
      BY <1>0, <1>2, <1>4
    <3> HIDE DEF r, m
    <3>2. /\ Tail(r) \in Seq(Nat) /\ Len(Tail(r)) = m - 1
          /\ \A i \in 1..(m - 1) : Tail(r)[i] = r[i + 1]
      BY <3>1, HeadTailProperties
    <3>3. Tail(r) = [i \in 1..(m - 1) |-> r[i + 1]]
      <4> DEFINE q == Tail(r)
                 k == m - 1
      <4>1. q \in Seq(Nat) /\ Len(q) = k /\ \A i \in 1..k : q[i] = r[i + 1]
        BY <3>2
      <4> HIDE DEF q, k
      <4>2. q \in [1..k -> Nat]
        BY <4>1
      <4>3. q = [i \in 1..k |-> r[i + 1]]
        BY <4>1, <4>2
      <4> QED BY <4>3 DEF q, k
    <3> QED BY <3>3 DEF r, m
  <2>5. \A i \in 1..(Size - d - 1) : RestFrom(d)[i + 1] = (d + 1) + i
    BY <1>0 DEF RestFrom
  <2>6. RestFrom(d + 1) = [i \in 1..(Size - d - 1) |-> (d + 1) + i]
    <3>1. Size - (d + 1) = Size - d - 1
      BY <1>0
    <3> QED BY <3>1 DEF RestFrom
  <2> QED BY <2>2, <2>3, <2>4, <2>5, <2>6
<1> QED BY <1>2, <1>3, <1>4

\* A server that does as it is asked sends what remains.
LEMMA ServedIs ==
    ASSUME faults = {}, TakeLimit >= Size, NEW d \in 0..Size, NEW body \in Bodies(d)
    PROVE  SubSeq(body, 1, Min({Len(body), TakeLimit})) = RestFrom(d)
<1>1. body = RestFrom(d)
  BY ChunksAre DEF Bodies
<1> DEFINE r == RestFrom(d)
<1>2. r \in Seq(Nat) /\ Len(r) = Size - d
  BY RestIs
<1>3. Len(r) \in Nat /\ Len(r) <= TakeLimit /\ TakeLimit \in Nat
  BY <1>2
<1>4. Min({Len(r), TakeLimit}) = Len(r)
  BY <1>3, MinTwo
<1> HIDE DEF r
<1>5. SubSeq(r, 1, Len(r)) = r
  BY <1>2
<1> QED BY <1>1, <1>4, <1>5 DEF r

\* A chunk lands behind those that are there.
LEMMA WrittenIs ==
    ASSUME Types, NEW w \in Workers, worker[w].name \in Names,
           NEW d \in 0..Size, worker[w].dl = d, worker[w].rest = RestFrom(d),
           RestFrom(d) # <<>>, file[worker[w].name] = Chunks(d)
    PROVE  Written(w)[worker[w].name] = Chunks(d + 1)
<1> DEFINE n == worker[w].name
           chunks == file[n]
           pos == (IF worker[w].start > 0 THEN Len(chunks) ELSE worker[w].dl) + 1
           m == Max({Len(chunks), pos})
<1>h. Head(RestFrom(d)) = d + 1
  BY RestIs
<1>0. d \in Nat /\ d + 1 \in Nat
  OBVIOUS
<1>1. Len(chunks) = d
  <2>1. Len(Chunks(d)) = d
    BY <1>0, ChunksAre
  <2> QED BY <2>1
<1>2. pos = d + 1
  BY <1>1
<1>3. m = d + 1
  <2>1. Max({d, d + 1}) = d + 1
    BY <1>0, MaxTwo
  <2> QED BY <1>1, <1>2, <2>1
<1>4. Written(w)[n] = [k \in 1..m |-> IF k = pos THEN Head(worker[w].rest)
                                     ELSE IF k <= Len(chunks) THEN chunks[k] ELSE 0]
  <2> DEFINE g == [k \in 1..m |-> IF k = pos THEN Head(worker[w].rest)
                                  ELSE IF k <= Len(chunks) THEN chunks[k] ELSE 0]
  <2>1. Written(w) = [file EXCEPT ![n] = g] /\ file \in [Names -> Seq(Nat)] /\ n \in Names
    BY DEF Written, Types
  <2> HIDE DEF g, n
  <2>2. Written(w)[n] = g
    BY <2>1
  <2> QED BY <2>2 DEF g
<1>5. Written(w)[n] = [k \in 1..(d + 1) |-> IF k = d + 1 THEN d + 1
                                     ELSE IF k <= d THEN Chunks(d)[k] ELSE 0]
  BY <1>h, <1>1, <1>2, <1>3, <1>4
<1>6. \A k \in 1..(d + 1) : (IF k = d + 1 THEN d + 1
                             ELSE IF k <= d THEN Chunks(d)[k] ELSE 0) = k
  BY <1>0 DEF Chunks
<1> QED BY <1>5, <1>6 DEF Chunks

Sound == Owners /\ \A id \in DOMAIN entries : Whole(id)

\* What the invariant says of completed downloads and of those at rest.
LEMMA WholeGives == WholeInv => CompletedIsWhole
<1> SUFFICES ASSUME WholeInv, faults = {}, NEW id \in DOMAIN entries
             PROVE  /\ entries[id].status = "Completed" => file[entries[id].name] = Resource
                    /\ LiveFor(id) = {} =>
                         file[entries[id].name] = SubSeq(Resource, 1, entries[id].done)
  BY DEF CompletedIsWhole
<1> DEFINE e == entries[id]
           f == file[e.name]
<1>1. Whole(id)
  BY DEF WholeInv
<1>2. LiveFor(id) = {} => \A w \in Workers : worker[w].id = id => ~Live(w)
  BY DEF LiveFor
<1>3. (\A w \in Workers : worker[w].id = id => ~Live(w)) => Resting(e, f) /\ e.done \in 0..Size
  BY <1>1 DEF Whole
<1>4. LiveFor(id) = {} => f = SubSeq(Resource, 1, e.done)
  BY <1>2, <1>3, ChunksAre DEF Resting
<1>5. ASSUME e.status = "Completed" PROVE f = Resource
  <2>1. \A w \in Workers : worker[w].id = id => ~Live(w)
    BY <1>1, <1>5 DEF Whole, Working
  <2>2. f = Chunks(Size)
    BY <1>3, <1>5, <2>1 DEF Resting
  <2> QED BY <2>2, ChunksAre
<1> QED BY <1>4, <1>5

\* Every file is empty at first.
LEMMA WholeInit == Init => WholeInv
<1> SUFFICES ASSUME Init PROVE Owners /\ \A id \in DOMAIN entries : Whole(id)
  BY DEF WholeInv
<1>1. DOMAIN entries = {} /\ worker = [w \in Workers |-> Idle] /\ nextId = 1
      /\ file = [n \in Names |-> <<>>]
  BY DEF Init, NoFunction
<1>2. \A w \in Workers : worker[w].id = 0 /\ worker[w].pc = "idle"
  BY <1>1, IdleThread
<1>3. Owners
  BY <1>1, <1>2 DEF Owners, IsSpawned, Live
<1> QED BY <1>1, <1>3

\* One thread that is spawned is the only one that changes.
LEMMA SpawnOne ==
    ASSUME HeldInv, NEW x \in Ids, NEW ents, ents[x].name \in Names,
           After({x}, worker, ents)
    PROVE  \E h \in Workers : /\ worker[h] = Idle /\ worker'[h] = New(x, ents[x].name)
                              /\ \A w \in Workers : w # h => worker'[w] = worker[w]
<1> DEFINE n == ents[x].name
           h == NewestOf(worker', x)
<1>1. h \in Workers /\ h > Used /\ worker'[h] = New(x, n)
  BY DEF After
<1>2. \A w \in Workers : w > Used /\ w <= Used' => worker'[w] = New(x, n)
  BY DEF After
<1>3. New(x, n).id = x /\ New(x, n).pc = "start"
  BY NewThread
<1>4. \A w \in Workers : /\ w <= Used => worker'[w] = worker[w]
                         /\ w > Used => worker[w] = Idle
                         /\ ~(w <= Used') => worker'[w] = Idle
  BY DEF After
<1>5. h <= Used'
  BY <1>1, <1>3, <1>4, IdleThread
<1>6. \A v, w \in Workers : v > Used /\ v <= Used' /\ w > Used /\ w <= Used'
                             /\ worker'[v].id = worker'[w].id => v = w
  BY DEF After
<1>7. Used \in Nat /\ \A w \in Workers : w \in Nat
  BY DEF HeldInv, Slots, Workers
<1> HIDE DEF h, n
<1>8. ASSUME NEW w \in Workers, w # h PROVE worker'[w] = worker[w]
  <2>1. CASE w <= Used
    BY <1>4, <2>1
  <2>2. CASE w > Used /\ w <= Used'
    <3>1. worker'[w].id = worker'[h].id
      BY <1>1, <1>2, <2>2
    <3>2. w = h
      BY <1>1, <1>5, <1>6, <2>2, <3>1
    <3> QED BY <1>8, <3>2
  <2>3. CASE w > Used /\ ~(w <= Used')
    BY <1>4, <2>3
  <2>4. w <= Used \/ w > Used
    BY <1>7
  <2> QED BY <2>1, <2>2, <2>3, <2>4
<1> QED BY <1>1, <1>4, <1>8 DEF n

\* A thread of a download was spawned.
LEMMA HeldSpawned ==
    ASSUME HeldInv
    PROVE  /\ \A w \in Workers : worker[w].id # 0 => IsSpawned(w)
           /\ \A id \in DOMAIN entries : id # 0 /\ id < nextId
                /\ \E w \in Workers : worker[w].id = id
<1>1. \A w \in Workers : worker[w].id # 0 => IsSpawned(w)
  BY IdleThread DEF HeldInv, Slots, IsSpawned
<1>2. \A id \in DOMAIN entries : id # 0 /\ id < nextId
  BY DEF HeldInv, Slots
<1>3. \A id \in DOMAIN entries : \E w \in Workers : worker[w].id = id
  BY DEF HeldInv, Held, Types, IsNewest
<1> QED BY <1>1, <1>2, <1>3

\* A step that moves no thread, changes no file and completes nothing.
LEMMA QuietWhole ==
    ASSUME Sound, UNCHANGED <<nextId, file>>,
           \A w \in Workers : /\ worker'[w].pc = worker[w].pc
                              /\ worker'[w].id = worker[w].id
                              /\ worker'[w].name = worker[w].name
                              /\ worker'[w].start = worker[w].start
                              /\ worker'[w].dl = worker[w].dl
                              /\ worker'[w].rest = worker[w].rest,
           DOMAIN entries' \subseteq DOMAIN entries,
           \A id \in DOMAIN entries' :
               /\ entries'[id].name = entries[id].name
               /\ entries'[id].done = entries[id].done
               /\ entries'[id].status = "Completed" => entries[id].status = "Completed"
    PROVE  Sound'
<1>1. Owners'
  BY DEF Sound, Owners, IsSpawned, Live
<1>2. ASSUME NEW id \in DOMAIN entries' PROVE Whole(id)'
  <2> DEFINE e == entries[id]
             g == entries'[id]
             f == file[e.name]
  <2>1. Whole(id) /\ g.name = e.name /\ g.done = e.done
        /\ (g.status = "Completed" => e.status = "Completed")
    BY DEF Sound
  <2>2. Resting(e, f) => Resting(g, f)
    BY <2>1 DEF Resting
  <2>3. ASSUME NEW w \in Workers, Working(worker[w], e, f)
        PROVE  Working(worker'[w], g, f)
    <3> DEFINE t == worker[w]
               u == worker'[w]
    <3>1. u.pc = t.pc /\ u.start = t.start /\ u.dl = t.dl /\ u.rest = t.rest
      OBVIOUS
    <3>2. Working(t, e, f)
      BY <2>3
    <3> HIDE DEF t, u, e, g, f
    <3>3. Working(u, g, f)
      BY <2>1, <3>1, <3>2 DEF Working
    <3> QED BY <3>3 DEF u
  <2>4. /\ e.done \in 0..Size
        /\ \A w \in Workers : worker[w].id = id => worker[w].name = e.name
        /\ \A w \in Workers : worker[w].id = id /\ Live(w) => Working(worker[w], e, f)
        /\ (\A w \in Workers : worker[w].id = id => ~Live(w)) => Resting(e, f)
    BY <2>1 DEF Whole
  <2>5. file'[g.name] = f
    BY <2>1
  <2>6. \A w \in Workers : Live(w)' <=> Live(w)
    BY DEF Live
  <2> HIDE DEF e, g, f
  <2>7. /\ g.done \in 0..Size
        /\ \A w \in Workers : worker'[w].id = id => worker'[w].name = g.name
    BY <2>1, <2>4
  <2>8. \A w \in Workers : worker'[w].id = id /\ Live(w)' => Working(worker'[w], g, f)
    BY <2>3, <2>4, <2>6
  <2>9. (\A w \in Workers : worker'[w].id = id => ~Live(w)') => Resting(g, f)
    BY <2>2, <2>4, <2>6
  <2> QED BY <2>5, <2>7, <2>8, <2>9 DEF Whole, g
<1> QED BY <1>1, <1>2 DEF Sound

\* A pause changes no file and no progress.
LEMMA WholePause ==
    ASSUME HeldInv, Sound, NEW id \in DOMAIN entries, Pause(id)
    PROVE  Sound'
<1>1. worker' = Cancelled(id) /\ UNCHANGED <<nextId, file>>
  BY DEF Pause
<1>2. /\ DOMAIN entries' = DOMAIN entries
      /\ \A i \in DOMAIN entries :
            /\ entries'[i].name = entries[i].name
            /\ entries'[i].done = entries[i].done
            /\ entries'[i].status = "Completed" => entries[i].status = "Completed"
  <2>0. entries \in [DOMAIN entries -> Entry]
    BY DEF HeldInv, Types
  <2>1. CASE UNCHANGED entries
    BY <2>0, <2>1
  <2>2. CASE entries' = [entries EXCEPT ![id].status = "Paused"]
    <3> DEFINE e == entries[id]
               x == [e EXCEPT !.status = "Paused"]
    <3>1. e \in Entry /\ entries' = [entries EXCEPT ![id] = x]
      BY <2>0, <2>2
    <3> HIDE DEF e
    <3>2. x.status = "Paused" /\ x.name = e.name /\ x.done = e.done
      BY <3>1 DEF Entry
    <3> HIDE DEF x
    <3> QED BY <2>0, <3>1, <3>2 DEF e
  <2> QED BY <2>1, <2>2 DEF Pause
<1> QED BY <1>1, <1>2, CancelIs, QuietWhole

\* A removal leaves the file and the other downloads.
LEMMA WholeRemove ==
    ASSUME HeldInv, Sound, NEW id \in DOMAIN entries, Remove(id)
    PROVE  Sound'
<1>1. /\ worker' = Cancelled(id) /\ UNCHANGED <<nextId, file>>
      /\ entries' = [i \in DOMAIN entries \ {id} |-> entries[i]]
  BY DEF Remove
<1>2. DOMAIN entries' = DOMAIN entries \ {id}
      /\ \A i \in DOMAIN entries' : entries'[i] = entries[i]
  BY <1>1
<1> QED BY <1>1, <1>2, CancelIs, QuietWhole

\* Saving changes no file.
LEMMA WholeSave ==
    ASSUME HeldInv, Sound, Save
    PROVE  Sound'
<1>1. UNCHANGED <<entries, nextId, worker, file>>
  BY DEF Save
<1> QED BY <1>1, QuietWhole

\* Thread h begins to work for download x, whose file is what is recorded of it.
LEMMA SpawnWhole ==
    ASSUME HeldInv, Sound, NEW x \in Ids, NEW n \in Names, NEW h \in Workers,
           worker[h] = Idle, worker'[h] = New(x, n),
           \A w \in Workers : w # h => worker'[w] = worker[w],
           \A w \in Workers : IsSpawned(w) => (worker[w].id = x <=> worker[w].name = n),
           \A w \in Workers : worker[w].id = x => ~Live(w),
           UNCHANGED file, x < nextId', nextId' >= nextId, nextId \in Nat, nextId' \in Nat,
           DOMAIN entries' = DOMAIN entries \cup {x},
           \A id \in DOMAIN entries : id # x => entries'[id] = entries[id],
           entries'[x].name = n, entries'[x].status = "Queued",
           entries'[x].done \in 0..Size, file[n] = Chunks(entries'[x].done)
    PROVE  Sound'
<1> DEFINE t == worker'[h]
<1>0. t.id = x /\ t.name = n /\ t.pc = "start" /\ x # 0
  BY NewThread DEF Ids
<1>1. worker[h].id = 0 /\ worker[h].pc = "idle"
  BY IdleThread
<1>2. \A w \in Workers : w # h => worker'[w] = worker[w]
  OBVIOUS
<1>3. /\ \A w \in Workers : worker[w].id \in Nat /\ worker[w].id < nextId
      /\ \A v, w \in Workers : IsSpawned(v) /\ IsSpawned(w) =>
           (worker[v].id = worker[w].id <=> worker[v].name = worker[w].name)
      /\ \A v, w \in Workers : Live(v) /\ Live(w) /\ worker[v].id = worker[w].id => v = w
      /\ \A m \in Names : (\A w \in Workers : IsSpawned(w) => worker[w].name # m) => file[m] = <<>>
  BY DEF Sound, Owners, HeldInv, Types, Thread
<1> HIDE DEF t
<1>4. Owners'
  <2>1. \A w \in Workers : worker'[w].id < nextId'
    <3> TAKE w \in Workers
    <3>1. CASE w = h
      BY <1>0, <3>1 DEF t
    <3>2. CASE w # h
      BY <1>2, <1>3, <3>2
    <3> QED BY <3>1, <3>2
  <2>2. ASSUME NEW w \in Workers, w # h, IsSpawned(w)'
        PROVE  IsSpawned(w) /\ (worker'[w].id = t.id <=> worker'[w].name = t.name)
    BY <1>0, <1>2, <2>2 DEF IsSpawned
  <2>3. \A v, w \in Workers : IsSpawned(v)' /\ IsSpawned(w)' =>
           (worker'[v].id = worker'[w].id <=> worker'[v].name = worker'[w].name)
    <3> TAKE v, w \in Workers
    <3> HAVE IsSpawned(v)' /\ IsSpawned(w)'
    <3>1. CASE v # h /\ w # h
      BY <1>2, <1>3, <2>2, <3>1
    <3>2. CASE v = h /\ w # h
      BY <2>2, <3>2 DEF t
    <3>3. CASE v # h /\ w = h
      BY <2>2, <3>3 DEF t
    <3> QED BY <3>1, <3>2, <3>3
  <2>4. ASSUME NEW w \in Workers, w # h, Live(w)'
        PROVE  Live(w) /\ worker'[w].id # x
    BY <1>2, <2>4 DEF Live
  <2>5. \A v, w \in Workers : Live(v)' /\ Live(w)' /\ worker'[v].id = worker'[w].id => v = w
    <3> TAKE v, w \in Workers
    <3> HAVE Live(v)' /\ Live(w)' /\ worker'[v].id = worker'[w].id
    <3>1. CASE v # h /\ w # h
      BY <1>2, <1>3, <2>4, <3>1
    <3>2. CASE v = h /\ w # h
      BY <1>0, <2>4, <3>2 DEF t
    <3>3. CASE v # h /\ w = h
      BY <1>0, <2>4, <3>3 DEF t
    <3> QED BY <3>1, <3>2, <3>3
  <2>6. \A m \in Names : (\A w \in Workers : IsSpawned(w)' => worker'[w].name # m) => file'[m] = <<>>
    <3> SUFFICES ASSUME NEW m \in Names, \A w \in Workers : IsSpawned(w)' => worker'[w].name # m
                 PROVE  file[m] = <<>>
      OBVIOUS
    <3>1. \A w \in Workers : IsSpawned(w) => worker[w].name # m
      BY <1>1, <1>2 DEF IsSpawned
    <3> QED BY <1>3, <3>1
  <2> QED BY <2>1, <2>3, <2>5, <2>6 DEF Owners
<1>5. Whole(x)'
  <2> DEFINE g == entries'[x]
             f == file[n]
  <2>1. g.name = n /\ g.status = "Queued" /\ g.done \in 0..Size /\ f = Chunks(g.done)
        /\ file'[g.name] = f
    OBVIOUS
  <2>2. Working(t, g, f)
    <3> HIDE DEF g, f
    <3> QED BY <1>0, <2>1 DEF Working
  <2>3. ASSUME NEW w \in Workers, w # h, worker'[w].id = x
        PROVE  worker'[w].name = n /\ ~Live(w)'
    <3>1. worker[w].id = x /\ worker'[w] = worker[w] /\ IsSpawned(w)
      BY <1>0, <1>2, <2>3, HeldSpawned
    <3> QED BY <3>1 DEF Live
  <2>4. Live(h)'
    BY <1>0 DEF Live, t
  <2> HIDE DEF g, f
  <2>5. \A w \in Workers : worker'[w].id = x => worker'[w].name = g.name
    BY <1>0, <2>1, <2>3 DEF t
  <2>6. \A w \in Workers : worker'[w].id = x /\ Live(w)' => Working(worker'[w], g, f)
    BY <2>2, <2>3 DEF t
  <2>7. ~(\A w \in Workers : worker'[w].id = x => ~Live(w)')
    BY <1>0, <2>4 DEF t
  <2> QED BY <2>1, <2>5, <2>6, <2>7 DEF Whole, g
<1>6. ASSUME NEW id \in DOMAIN entries, id # x PROVE Whole(id)'
  <2> DEFINE e == entries[id]
             f == file[e.name]
  <2>1. entries'[id] = e /\ file'[e.name] = f /\ Whole(id) /\ id # 0
    BY <1>6, HeldSpawned DEF Sound
  <2>2. \A w \in Workers : (worker'[w].id = id \/ worker[w].id = id) => worker'[w] = worker[w]
    BY <1>0, <1>1, <1>2, <1>6, <2>1 DEF t
  <2>3. /\ e.done \in 0..Size
        /\ \A w \in Workers : worker[w].id = id => worker[w].name = e.name
        /\ \A w \in Workers : worker[w].id = id /\ Live(w) => Working(worker[w], e, f)
        /\ (\A w \in Workers : worker[w].id = id => ~Live(w)) => Resting(e, f)
    BY <2>1 DEF Whole
  <2> HIDE DEF e, f
  <2>4. \A w \in Workers : worker'[w].id = id => worker'[w].name = e.name
    BY <2>2, <2>3
  <2>5. \A w \in Workers : worker'[w].id = id /\ Live(w)' => Working(worker'[w], e, f)
    BY <2>2, <2>3 DEF Live
  <2>6. (\A w \in Workers : worker'[w].id = id => ~Live(w)') => Resting(e, f)
    BY <2>2, <2>3 DEF Live
  <2> QED BY <2>1, <2>3, <2>4, <2>5, <2>6 DEF Whole
<1> QED BY <1>4, <1>5, <1>6 DEF Sound

\* The thread that start_download spawns for file n under the id x.
Started(x, n) ==
    /\ x \in Ids /\ x \in Nat /\ nextId' = x + 1 /\ UNCHANGED file
    /\ DOMAIN entries' = DOMAIN entries \cup {x}
    /\ entries'[x].name = n /\ entries'[x].status = "Queued" /\ entries'[x].done = 0
    /\ \A j \in DOMAIN entries : j # x => entries'[j] = entries[j]
    /\ \E h \in Workers : /\ worker[h] = Idle /\ worker'[h] = New(x, n)
                         /\ \A w \in Workers : w # h => worker'[w] = worker[w]

\* What start_download leaves.
LEMMA StartLeaves ==
    ASSUME HeldInv, NEW n \in Names, Start(n), NEW x, x = nextId
    PROVE  Started(x, n)
<1> DEFINE e == [name |-> n, status |-> "Queued", done |-> 0]
           ents == entries'
<1>1. /\ Spawns({x}) <= MaxWorkers
      /\ entries' = Put(entries, x, e)
      /\ worker' = Spawned(worker, entries', {x})
      /\ nextId' = x + 1
      /\ UNCHANGED file
  BY DEF Start
<1>2. /\ DOMAIN entries' = DOMAIN entries \cup {x} /\ entries'[x] = e
      /\ \A j \in DOMAIN entries : j # x => entries'[j] = entries[j]
  <2> HIDE DEF e
  <2> QED BY <1>1 DEF Put
<1>3. e.name = n /\ e.status = "Queued" /\ e.done = 0
  OBVIOUS
<1> HIDE DEF e
<1>4. x \in Ids /\ x \in 1..(Used + 1) /\ x \in Nat
  <2>1. Cardinality({x}) = 1
    BY One
  <2>2. Used \in Nat /\ Used + 1 <= MaxWorkers /\ x \in 1..(Used + 1)
    BY <1>1, <2>1 DEF Spawns, Used, HeldInv, Slots
  <2> QED BY <2>2 DEF Ids
<1>5. {x} \in SUBSET Ids /\ {x} \subseteq 1..(Used + Cardinality({x}))
  BY <1>4, One
<1>6. \A i \in {x} : ents[i].name \in Names
  BY <1>2, <1>3
<1>7. After({x}, worker, ents)
  <2> DEFINE ids == {x}
  <2>1. /\ Spawns(ids) <= MaxWorkers /\ worker' = Spawned(worker, ents, ids)
        /\ ids \in SUBSET Ids /\ ids \subseteq 1..(Used + Cardinality(ids))
        /\ \A i \in ids : ents[i].name \in Names
    BY <1>1, <1>5, <1>6
  <2> HIDE DEF ids, ents
  <2>2. After(ids, worker, ents)
    BY <2>1, BeforeSpawn, SpawnLeaves DEF HeldInv
  <2> QED BY <2>2 DEF ids
<1>8. \E h \in Workers : /\ worker[h] = Idle /\ worker'[h] = New(x, n)
                        /\ \A w \in Workers : w # h => worker'[w] = worker[w]
  <2>1. ents[x].name = n
    BY <1>2, <1>3
  <2> HIDE DEF ents
  <2> QED BY <1>4, <1>7, <2>1, SpawnOne
<1> HIDE DEF ents
<1> QED BY <1>1, <1>2, <1>3, <1>4, <1>8 DEF Started

\* A new download begins with a file that no thread has touched.
LEMMA WholeStart ==
    ASSUME HeldInv, Sound, faults = {}, NEW n \in Names, Start(n)
    PROVE  Sound'
<1>0. PICK x : x = nextId
  OBVIOUS
<1>1. Started(x, n)
  BY <1>0, StartLeaves
<1>2. PICK h \in Workers : /\ worker[h] = Idle /\ worker'[h] = New(x, n)
                           /\ \A w \in Workers : w # h => worker'[w] = worker[w]
  BY <1>1 DEF Started
<1>3. n \notin {worker[w].name : w \in Workers}
  BY DEF Start
<1>4. /\ \A w \in Workers : worker[w].id < x /\ worker[w].name # n
      /\ file[n] = <<>>
  BY <1>0, <1>3 DEF Sound, Owners
<1>5. \A w \in Workers : worker[w].id # x
  <2>1. \A w \in Workers : worker[w].id \in Nat
    BY DEF HeldInv, Types, Thread
  <2> QED BY <1>1, <1>4, <2>1 DEF Started
<1>6. entries'[x].done \in 0..Size /\ file[n] = Chunks(entries'[x].done)
  BY <1>1, <1>4, ChunksAre DEF Started
<1>7. x < nextId' /\ nextId' >= nextId /\ nextId \in Nat /\ nextId' \in Nat
  BY <1>0, <1>1 DEF Started
<1> QED BY <1>1, <1>2, <1>4, <1>5, <1>6, <1>7, SpawnWhole DEF Started

\* The thread that resume_download spawns.
LEMMA ResumeLeaves ==
    ASSUME HeldInv, NEW id \in DOMAIN entries, Resume(id)
    PROVE  /\ id \in Ids /\ id < nextId /\ nextId \in Nat /\ UNCHANGED <<nextId, file>>
           /\ entries[id].name \in Names
           /\ DOMAIN entries' = DOMAIN entries
           /\ entries'[id].status = "Queued" /\ entries'[id].name = entries[id].name
           /\ entries'[id].done = entries[id].done
           /\ \A j \in DOMAIN entries : j # id => entries'[j] = entries[j]
           /\ \E h \in Workers : /\ worker[h] = Idle
                                /\ worker'[h] = New(id, entries[id].name)
                                /\ \A w \in Workers : w # h => worker'[w] = worker[w]
<1> DEFINE e == entries[id]
           x == [e EXCEPT !.status = "Queued"]
           n == e.name
<1>1. /\ Spawns({id}) <= MaxWorkers
      /\ entries' = [entries EXCEPT ![id].status = "Queued"]
      /\ worker' = Spawned(worker, entries, {id})
      /\ UNCHANGED <<nextId, file>>
  BY DEF Resume
<1>2. entries \in [DOMAIN entries -> Entry] /\ e \in Entry
  BY DEF HeldInv, Types
<1>3. /\ DOMAIN entries' = DOMAIN entries
      /\ entries'[id].status = "Queued" /\ entries'[id].name = e.name
      /\ entries'[id].done = e.done
      /\ \A j \in DOMAIN entries : j # id => entries'[j] = entries[j]
  <2>1. entries' = [entries EXCEPT ![id] = x]
    BY <1>1, <1>2
  <2> HIDE DEF e
  <2>2. x.status = "Queued" /\ x.name = e.name /\ x.done = e.done
    BY <1>2 DEF Entry
  <2> HIDE DEF x
  <2> QED BY <1>2, <2>1, <2>2
<1>4. id \in Ids /\ {id} \subseteq 1..(Used + Cardinality({id})) /\ id < nextId /\ nextId \in Nat
  <2>1. Used \in 0..MaxWorkers /\ nextId \in 1..(Used + 1) /\ id \in 1..(nextId - 1)
    BY DEF HeldInv, Slots
  <2>2. Cardinality({id}) = 1
    BY One
  <2> QED BY <2>1, <2>2 DEF Ids
<1>5. \A i \in {id} : entries[i].name \in Names
  BY <1>2 DEF Entry
<1>6. After({id}, worker, entries)
  <2> DEFINE ids == {id}
  <2>1. /\ Spawns(ids) <= MaxWorkers /\ worker' = Spawned(worker, entries, ids)
        /\ ids \in SUBSET Ids /\ ids \subseteq 1..(Used + Cardinality(ids))
        /\ \A i \in ids : entries[i].name \in Names
    BY <1>1, <1>4, <1>5
  <2> HIDE DEF ids
  <2>2. After(ids, worker, entries)
    BY <2>1, BeforeSpawn, SpawnLeaves DEF HeldInv
  <2> QED BY <2>2 DEF ids
<1>7. \E h \in Workers : /\ worker[h] = Idle /\ worker'[h] = New(id, n)
                        /\ \A w \in Workers : w # h => worker'[w] = worker[w]
  BY <1>4, <1>5, <1>6, SpawnOne
<1>8. n \in Names
  BY <1>5
<1>9. UNCHANGED <<nextId, file>>
  BY <1>1
<1> HIDE DEF x
<1> QED BY <1>3, <1>4, <1>7, <1>8, <1>9

\* A download is resumed from where its file ends.
LEMMA WholeResume ==
    ASSUME HeldInv, Sound, faults = {}, NEW id \in DOMAIN entries, Resume(id)
    PROVE  Sound'
<1> DEFINE e == entries[id]
           n == e.name
<1>1. /\ id \in Ids /\ id < nextId /\ nextId \in Nat /\ UNCHANGED <<nextId, file>>
      /\ n \in Names /\ DOMAIN entries' = DOMAIN entries
      /\ entries'[id].status = "Queued" /\ entries'[id].name = n /\ entries'[id].done = e.done
      /\ \A j \in DOMAIN entries : j # id => entries'[j] = entries[j]
  BY ResumeLeaves
<1>7. PICK h \in Workers : /\ worker[h] = Idle /\ worker'[h] = New(id, n)
                           /\ \A w \in Workers : w # h => worker'[w] = worker[w]
  BY ResumeLeaves
<1>8. /\ \A w \in Workers : worker[w].id = id => ~Live(w)
      /\ \A w \in Workers : worker[w].id = id => worker[w].name = n
      /\ e.done \in 0..Size /\ file[n] = Chunks(e.done)
  <2>1. \A w \in Workers : worker[w].id = id => ~Live(w)
    BY DEF Resume, LiveFor
  <2>2. Whole(id)
    BY DEF Sound
  <2> QED BY <2>1, <2>2 DEF Whole, Resting
<1>9. \A w \in Workers : IsSpawned(w) => (worker[w].id = id <=> worker[w].name = n)
  <2>1. PICK v \in Workers : worker[v].id = id /\ IsSpawned(v)
    BY HeldSpawned
  <2>2. \A w \in Workers : IsSpawned(w) =>
           (worker[v].id = worker[w].id <=> worker[v].name = worker[w].name)
    BY <2>1 DEF Sound, Owners
  <2> QED BY <1>8, <2>1, <2>2
<1>10. id < nextId' /\ nextId' >= nextId /\ nextId' \in Nat
       /\ DOMAIN entries' = DOMAIN entries \cup {id}
  BY <1>1
<1>12. entries'[id].done \in 0..Size /\ file[n] = Chunks(entries'[id].done)
  BY <1>1, <1>8
<1>13. UNCHANGED file
  BY <1>1
<1> HIDE DEF e, n
<1> QED BY <1>1, <1>7, <1>8, <1>9, <1>10, <1>12, <1>13, SpawnWhole

\* What a step of a thread leaves of the download it works for.
Kept(w) ==
    LET id == worker[w].id
        g  == entries'[id]
        f  == file'[worker[w].name]
    IN  id \in DOMAIN entries =>
          /\ g.done \in 0..Size
          /\ IF worker'[w].pc = "done" THEN Resting(g, f) ELSE Working(worker'[w], g, f)

\* A thread that keeps its own download whole keeps the others whole: their
\* files have other names.
LEMMA WholeMoves ==
    ASSUME HeldInv, Sound, NEW w \in Workers, Moved(w), Kept(w)
    PROVE  Sound'
<1>0. PICK i : i = worker[w].id
  OBVIOUS
<1> DEFINE t == worker'[w]
<1>1. /\ Live(w) /\ t.id = i /\ t.name = worker[w].name /\ t.pc # "idle"
      /\ \A v \in Workers : v # w => worker'[v] = worker[v]
      /\ \A id \in DOMAIN entries :
           /\ entries'[id].name = entries[id].name
           /\ id # i => entries'[id] = entries[id]
      /\ \A n \in Names : n # worker[w].name => file'[n] = file[n]
      /\ nextId' = nextId /\ DOMAIN entries' = DOMAIN entries
  BY <1>0 DEF Moved, HeldInv, Types
<1>2. \A v \in Workers : /\ worker'[v].id = worker[v].id
                         /\ worker'[v].name = worker[v].name
                         /\ IsSpawned(v)' <=> IsSpawned(v)
                         /\ Live(v)' => Live(v)
  BY <1>0, <1>1 DEF IsSpawned, Live
<1>o. /\ \A v \in Workers : worker[v].id < nextId
      /\ \A u, v \in Workers : IsSpawned(u) /\ IsSpawned(v) =>
           (worker[u].id = worker[v].id <=> worker[u].name = worker[v].name)
      /\ \A u, v \in Workers : Live(u) /\ Live(v) /\ worker[u].id = worker[v].id => u = v
      /\ \A n \in Names : (\A v \in Workers : IsSpawned(v) => worker[v].name # n) => file[n] = <<>>
  BY DEF Sound, Owners
<1>s. IsSpawned(w)
  BY <1>1 DEF IsSpawned, Live
<1>3. Owners'
  <2>1. \A u, v \in Workers : IsSpawned(u)' /\ IsSpawned(v)' =>
           (worker'[u].id = worker'[v].id <=> worker'[u].name = worker'[v].name)
    BY <1>2, <1>o
  <2>2. \A u, v \in Workers : Live(u)' /\ Live(v)' /\ worker'[u].id = worker'[v].id => u = v
    BY <1>2, <1>o
  <2>3. \A n \in Names : (\A v \in Workers : IsSpawned(v)' => worker'[v].name # n) => file'[n] = <<>>
    BY <1>1, <1>2, <1>o, <1>s
  <2>4. \A v \in Workers : worker'[v].id < nextId'
    BY <1>1, <1>2, <1>o
  <2> QED BY <2>1, <2>2, <2>3, <2>4 DEF Owners
<1>4. ASSUME NEW id \in DOMAIN entries, id # i PROVE Whole(id)'
  <2> DEFINE e == entries[id]
             f == file[e.name]
  <2>1. /\ e.done \in 0..Size
        /\ \A v \in Workers : worker[v].id = id => worker[v].name = e.name
        /\ \A v \in Workers : worker[v].id = id /\ Live(v) => Working(worker[v], e, f)
        /\ (\A v \in Workers : worker[v].id = id => ~Live(v)) => Resting(e, f)
    BY DEF Sound, Whole
  <2>2. PICK v \in Workers : worker[v].id = id /\ IsSpawned(v)
    BY HeldSpawned
  <2>3. worker[v].name = e.name /\ worker[v].name # worker[w].name /\ e.name \in Names
    <3>1. worker[v].name = e.name
      BY <2>1, <2>2
    <3>2. worker[v].name # worker[w].name
      BY <1>0, <1>4, <1>o, <1>s, <2>2
    <3>3. e \in Entry
      BY DEF HeldInv, Types
    <3> QED BY <3>1, <3>2, <3>3 DEF Entry
  <2>4. entries'[id] = e /\ file'[e.name] = f
    BY <1>1, <1>4, <2>3
  <2>5. \A u \in Workers : worker'[u].id = id \/ worker[u].id = id => worker'[u] = worker[u]
    BY <1>1, <1>2, <1>4
  <2> HIDE DEF e, f
  <2>6. \A u \in Workers : worker'[u].id = id => worker'[u].name = e.name
    BY <2>1, <2>5
  <2>7. \A u \in Workers : worker'[u].id = id /\ Live(u)' => Working(worker'[u], e, f)
    BY <2>1, <2>5 DEF Live
  <2>8. (\A u \in Workers : worker'[u].id = id => ~Live(u)') => Resting(e, f)
    BY <2>1, <2>5 DEF Live
  <2> QED BY <2>1, <2>4, <2>6, <2>7, <2>8 DEF Whole
<1>5. ASSUME i \in DOMAIN entries PROVE Whole(i)'
  <2> DEFINE e == entries[i]
             g == entries'[i]
             f == file'[worker[w].name]
  <2>1. \A v \in Workers : worker[v].id = i => worker[v].name = e.name
    BY <1>5 DEF Sound, Whole
  <2>2. g.name = e.name /\ e.name = worker[w].name
    BY <1>0, <1>1, <1>5, <2>1
  <2>3. /\ g.done \in 0..Size
        /\ IF t.pc = "done" THEN Resting(g, f) ELSE Working(t, g, f)
    BY <1>0, <1>5 DEF Kept
  <2>4. \A v \in Workers : worker'[v].id = i /\ Live(v)' => v = w
    BY <1>0, <1>1, <1>2, <1>o
  <2>5. Live(w)' <=> t.pc # "done"
    BY <1>1 DEF Live
  <2>6. file'[g.name] = f
    BY <2>2
  <2> HIDE DEF e, g, f, t
  <2>7. \A v \in Workers : worker'[v].id = i => worker'[v].name = g.name
    BY <1>2, <2>1, <2>2
  <2>8. \A v \in Workers : worker'[v].id = i /\ Live(v)' => Working(worker'[v], g, f)
    BY <2>3, <2>4, <2>5 DEF t
  <2>9. (\A v \in Workers : worker'[v].id = i => ~Live(v)') => Resting(g, f)
    BY <1>1, <2>3, <2>5 DEF t
  <2> QED BY <2>3, <2>6, <2>7, <2>8, <2>9 DEF Whole, g
<1> QED BY <1>1, <1>3, <1>4, <1>5 DEF Sound

\* In an environment that drops connections at most, a step of a thread records
\* what the file holds, and completes a download when nothing is left to come.
LEMMA WorkerKeeps ==
    ASSUME HeldInv, Sound, faults = {}, TakeLimit >= Size, NEW w \in Workers, WorkerStep(w)
    PROVE  Kept(w)
<1>0. PICK i : i = worker[w].id
  OBVIOUS
<1> DEFINE t == worker[w]
           u == worker'[w]
           e == entries[i]
           g == entries'[i]
           f == file[t.name]
           h == file'[t.name]
<1> SUFFICES ASSUME i \in DOMAIN entries
             PROVE  /\ g.done \in 0..Size
                    /\ IF u.pc = "done" THEN Resting(g, h) ELSE Working(u, g, h)
  BY <1>0 DEF Kept
<1>1. /\ t \in Thread /\ t.id = i /\ e \in Entry /\ Live(w)
      /\ e.done \in 0..Size /\ Working(t, e, f) /\ t.name \in Names
      /\ worker \in [Workers -> Thread] /\ file \in [Names -> Seq(Nat)]
  <2>1. t \in Thread /\ e \in Entry /\ worker \in [Workers -> Thread]
        /\ file \in [Names -> Seq(Nat)]
    BY DEF HeldInv, Types
  <2>2. Live(w)
    BY WorkerMoves DEF HeldInv, Moved
  <2>3. e.done \in 0..Size /\ t.name = e.name /\ Working(t, e, file[e.name])
    BY <1>0, <2>2 DEF Sound, Whole
  <2>4. e.name \in Names
    BY <2>1 DEF Entry
  <2> QED BY <1>0, <2>1, <2>2, <2>3, <2>4
<1>2. DoneOf(w) = e.done /\ StatusOf(w) = e.status
  BY <1>0 DEF DoneOf, StatusOf
<1>3. ASSUME NEW s \in Status, NEW d \in Nat, Report(w, s, d)
      PROVE  g.status = s /\ g.done = d
  BY <1>0, <1>3, ReportIs DEF HeldInv
<1>4. ASSUME NEW pc \in {"read", "loop", "done"}, Goto(w, pc)
      PROVE  u.pc = pc /\ u.start = t.start /\ u.dl = t.dl /\ u.rest = t.rest
  BY <1>4, GotoIs DEF HeldInv
<1>5. {"Queued", "Downloading", "Paused", "Completed", "Failed"} = Status
  BY DEF Status
<1>6. /\ e.status # "Completed" /\ e.status \in Status
      /\ t.pc \in {"start", "sent", "open"} => f = Chunks(e.done)
      /\ t.pc \in {"sent", "open"} => t.start = e.done
      /\ t.pc = "open" => t.dl = e.done
      /\ t.pc \in {"loop", "read"} => t.dl \in 0..Size /\ f = Chunks(t.dl)
      /\ t.pc \in {"open", "loop", "read"} => t.rest = RestFrom(t.dl)
      /\ t.start \in Nat /\ t.dl \in Nat /\ e.done \in Nat /\ Size \in Nat
  BY <1>1 DEF Working, Thread, Entry
<1> HIDE DEF t, u, e, g, f, h
\* The thread that reports what its file holds and ends.
<1>7. ASSUME NEW s \in Status, NEW d \in 0..Size, Report(w, s, d), Goto(w, "done"),
             h = Chunks(d), s = "Completed" => d = Size
      PROVE  g.done \in 0..Size /\ u.pc = "done" /\ Resting(g, h)
  <2>1. d \in Nat
    BY <1>6
  <2>2. g.status = s /\ g.done = d /\ u.pc = "done"
    BY <1>3, <1>4, <1>7, <2>1
  <2> QED BY <1>7, <2>2 DEF Resting
<1>8. CASE ReadProgress(w)
  <2> DEFINE d == DoneOf(w)
             x == [t EXCEPT !.pc = "sent"]
             y == [x EXCEPT !.start = d]
  <2>1. worker' = [worker EXCEPT ![w] = y] /\ t.pc = "start" /\ UNCHANGED <<entries, file>>
    BY <1>1, <1>8 DEF ReadProgress, t
  <2>2. x \in Thread /\ x.pc = "sent" /\ d \in Nat
    BY <1>1, <1>2, <1>6 DEF Thread
  <2> HIDE DEF x, d
  <2>3. y.pc = "sent" /\ y.start = d
    BY <2>2 DEF Thread
  <2> HIDE DEF y
  <2>4. u = y /\ g = e /\ h = f
    BY <1>1, <2>1 DEF u, g, e, h, f
  <2> QED BY <1>1, <1>2, <1>6, <2>1, <2>3, <2>4 DEF Working, d
<1>9. CASE Respond(w)
  <2>1. PICK body \in Bodies(t.start) :
            worker' = [worker EXCEPT ![w].pc = "open", ![w].dl = worker[w].start,
                        ![w].rest = SubSeq(body, 1, Min({Len(body), TakeLimit}))]
    BY <1>9 DEF Respond, t
  <2>2. t.pc = "sent" /\ Report(w, "Downloading", DoneOf(w)) /\ UNCHANGED file
    BY <1>9 DEF Respond, t
  <2> DEFINE r == SubSeq(body, 1, Min({Len(body), TakeLimit}))
             x == [t EXCEPT !.pc = "open"]
             y == [x EXCEPT !.dl = t.start]
             z == [y EXCEPT !.rest = r]
  <2>3. r = RestFrom(t.start) /\ r \in Seq(Nat)
    <3>1. t.start \in 0..Size
      BY <1>1, <1>6, <2>2
    <3> QED BY <2>1, <3>1, ServedIs, RestIs
  <2> HIDE DEF r
  <2>4. worker' = [worker EXCEPT ![w] = z]
    BY <1>1, <2>1 DEF r, t
  <2>5. x \in Thread /\ x.pc = "open" /\ x.start = t.start
    BY <1>1 DEF Thread
  <2> HIDE DEF x
  <2>6. y \in Thread /\ y.pc = "open" /\ y.start = t.start /\ y.dl = t.start
    BY <1>6, <2>5 DEF Thread
  <2> HIDE DEF y
  <2>7. z.pc = "open" /\ z.start = t.start /\ z.dl = t.start /\ z.rest = r
    BY <2>3, <2>6 DEF Thread
  <2> HIDE DEF z
  <2>8. u = z /\ h = f
    BY <1>1, <2>2, <2>4 DEF u, h, f
  <2>9. g.status = "Downloading" /\ g.done = e.done
    BY <1>2, <1>3, <1>5, <1>6, <2>2
  <2> QED BY <1>1, <1>6, <2>2, <2>3, <2>7, <2>8, <2>9 DEF Working
<1>10. CASE RequestFails(w)
  <2>1. t.pc = "sent" /\ h = f /\ Goto(w, "done") /\ Report(w, "Failed", t.start)
    BY <1>10 DEF RequestFails, t, h, f
  <2> QED BY <1>1, <1>5, <1>6, <1>7, <2>1
<1>11. CASE OpenFile(w)
  <2>1. t.pc = "open" /\ g = e /\ Goto(w, "loop")
        /\ file' = IF t.start > 0 THEN file ELSE [file EXCEPT ![t.name] = <<>>]
    BY <1>11 DEF OpenFile, t, g, e
  <2>2. u.pc = "loop" /\ u.start = t.start /\ u.dl = t.dl /\ u.rest = t.rest
    BY <1>4, <2>1
  <2>3. h = Chunks(e.done)
    <3>1. CASE t.start > 0
      BY <1>6, <2>1, <3>1 DEF h, f
    <3>2. CASE ~(t.start > 0)
      <4>1. e.done = 0
        BY <1>6, <2>1, <3>2
      <4>2. h = <<>>
        BY <1>1, <2>1, <3>2 DEF h
      <4> QED BY <4>1, <4>2, ChunksAre
    <3> QED BY <3>1, <3>2
  <2> QED BY <1>1, <1>6, <2>1, <2>2, <2>3 DEF Working
<1>12. CASE OpenFails(w)
  <2>1. t.pc = "open" /\ h = f /\ Goto(w, "done") /\ Report(w, "Failed", e.done)
    BY <1>2, <1>12 DEF OpenFails, t, h, f
  <2> QED BY <1>1, <1>5, <1>6, <1>7, <2>1
<1>13. CASE CheckCancel(w)
  <2>1. t.pc = "loop" /\ h = f
    BY <1>13 DEF CheckCancel, t, h, f
  <2>2. CASE t.cancel
    <3>1. Goto(w, "done") /\ Report(w, "Paused", t.dl)
      BY <1>13, <2>2 DEF CheckCancel, t
    <3> QED BY <1>5, <1>6, <1>7, <2>1, <3>1
  <2>3. CASE ~t.cancel
    <3>1. Goto(w, "read") /\ g = e
      BY <1>13, <2>3 DEF CheckCancel, t, g, e
    <3>2. u.pc = "read" /\ u.start = t.start /\ u.dl = t.dl /\ u.rest = t.rest
      BY <1>4, <3>1
    <3> QED BY <1>1, <1>6, <2>1, <3>1, <3>2 DEF Working
  <2> QED BY <2>2, <2>3
<1>14. CASE ReadChunk(w)
  <2> DEFINE d == t.dl + 1
             r == Tail(t.rest)
             x == [t EXCEPT !.pc = "loop"]
             y == [x EXCEPT !.dl = d]
             z == [y EXCEPT !.rest = r]
  <2>1. /\ t.pc = "read" /\ t.rest # <<>>
        /\ worker' = [worker EXCEPT ![w] = z]
        /\ file' = Written(w)
        /\ UNCHANGED entries \/ Report(w, StatusOf(w), d)
    BY <1>1, <1>14 DEF ReadChunk, t
  <2>2. t.dl \in 0..Size /\ f = Chunks(t.dl) /\ t.rest = RestFrom(t.dl)
    BY <1>6, <2>1
  <2>3. d \in 0..Size /\ r = RestFrom(d)
    BY <2>1, <2>2, RestIs
  <2>4. h = Chunks(d)
    <3>1. Written(w)[t.name] = Chunks(d)
      BY <1>1, <2>1, <2>2, WrittenIs DEF t, f, HeldInv
    <3> QED BY <2>1, <3>1 DEF h
  <2>5. r \in Seq(Nat) /\ d \in Nat
    <3> HIDE DEF d, r
    <3>1. RestFrom(d) \in Seq(Nat)
      BY <2>3, RestIs
    <3> QED BY <1>6, <2>3, <3>1
  <2>6. g.done \in 0..Size /\ g.status # "Completed"
    <3> HIDE DEF d
    <3>1. CASE UNCHANGED entries
      BY <1>1, <1>6, <3>1 DEF g, e
    <3>2. CASE Report(w, StatusOf(w), d)
      BY <1>2, <1>3, <1>6, <2>3, <2>5, <3>2
    <3> QED BY <2>1, <3>1, <3>2
  <2> HIDE DEF d, r
  <2>7. x \in Thread /\ x.pc = "loop"
    BY <1>1 DEF Thread
  <2> HIDE DEF x
  <2>8. y \in Thread /\ y.pc = "loop" /\ y.dl = d
    BY <2>5, <2>7 DEF Thread
  <2> HIDE DEF y
  <2>9. z.pc = "loop" /\ z.dl = d /\ z.rest = r
    BY <2>5, <2>8 DEF Thread
  <2> HIDE DEF z
  <2>10. u = z
    BY <1>1, <2>1 DEF u
  <2> QED BY <2>3, <2>4, <2>6, <2>9, <2>10 DEF Working
<1>15. CASE WriteFails(w)
  BY <1>15 DEF WriteFails
<1>16. CASE ReadFails(w)
  <2>1. PICK s \in {"Paused", "Failed"} : Report(w, s, t.dl)
    BY <1>16 DEF ReadFails, t
  <2>2. t.pc = "read" /\ h = f /\ Goto(w, "done")
    BY <1>16 DEF ReadFails, t, h, f
  <2>3. s \in Status /\ s # "Completed"
    BY <1>5
  <2> QED BY <1>6, <1>7, <2>1, <2>2, <2>3
<1>17. CASE Finish(w)
  <2> DEFINE s == IF e.status = "Downloading" THEN "Completed" ELSE e.status
  <2>1. t.pc = "read" /\ t.rest = <<>> /\ h = f /\ Goto(w, "done") /\ Report(w, s, t.dl)
    BY <1>2, <1>17 DEF Finish, t, h, f
  <2>2. s \in Status
    BY <1>5, <1>6
  <2>3. t.dl \in 0..Size /\ t.dl = Size /\ h = Chunks(t.dl)
    BY <1>6, <2>1, RestIs
  <2> HIDE DEF s
  <2> QED BY <1>7, <2>1, <2>2, <2>3
<1> QED
  BY <1>8, <1>9, <1>10, <1>11, <1>12, <1>13, <1>14, <1>15, <1>16, <1>17 DEF WorkerStep

\* Every step keeps every download whole.
LEMMA WholeStep == TakeLimit >= Size /\ HeldInv /\ WholeInv /\ [Next]_vars => WholeInv'
<1> SUFFICES ASSUME TakeLimit >= Size, HeldInv, WholeInv, [Next]_vars, faults' = {}
             PROVE  Sound'
  BY DEF WholeInv, Sound
<1>0. faults = {} /\ Sound
  BY DEF Next, vars, WholeInv, Sound
<1>1. CASE UNCHANGED vars
  BY <1>0, <1>1, QuietWhole DEF vars
<1>2. CASE UserStep
  BY <1>0, <1>2, WholeStart, WholePause, WholeResume, WholeRemove DEF UserStep
<1>3. CASE Save
  BY <1>0, <1>3, WholeSave
<1>4. CASE Restart
  BY <1>0, <1>4 DEF Restart
<1>5. CASE \E w \in Workers : WorkerStep(w)
  BY <1>0, <1>5, WorkerMoves, WorkerKeeps, WholeMoves DEF HeldInv
<1> QED BY <1>1, <1>2, <1>3, <1>4, <1>5 DEF Next

\* In an environment that does no more than drop connections a completed download
\* is the resource, and what is recorded of one at rest is what its file holds:
\* for resources that one attempt may read to their end (1 GB in the code).
THEOREM DownloadsAreWhole ==
    ASSUME TakeLimit >= Size
    PROVE  Spec => []CompletedIsWhole
<1>1. HeldInv /\ WholeInv /\ [Next]_vars => WholeInv'
  BY WholeStep
<1>2. Spec => [](HeldInv /\ WholeInv)
  BY <1>1, HeldInit, HeldStep, WholeInit, PTL DEF Spec
<1> QED BY <1>2, WholeGives, PTL

-----------------------------------------------------------------------------
(* PausedUntilResumed.                                                     *)

\* When no download is resumed too early: at most one thread runs for each, and
\* one that has no answer yet works for a download that is shown as Queued.
Single ==
    /\ \A w \in Workers : Live(w) => worker[w].id < nextId
    /\ \A v, w \in Workers : Live(v) /\ Live(w) /\ worker[v].id = worker[w].id => v = w
    /\ \A w \in Workers : worker[w].pc \in {"start", "sent"} /\ worker[w].id \in DOMAIN entries
                          => entries[worker[w].id].status = "Queued"

SingleInv == "impatient" \notin faults => Single

\* What a thread that takes a step may make of the status of its download.
LEMMA WorkerShows ==
    ASSUME Types, Slots, NEW w \in Workers, WorkerStep(w)
    PROVE  /\ worker'[w].pc \in {"start", "sent"} =>
                worker[w].pc \in {"start", "sent"} /\ UNCHANGED entries
           /\ worker[w].id \in DOMAIN entries =>
                LET s == entries[worker[w].id].status
                    z == entries'[worker[w].id].status
                IN  /\ z = "Downloading" => worker[w].pc = "sent" \/ s = "Downloading"
                    /\ z = "Completed" => s \in {"Downloading", "Completed"}
<1>0. PICK i : i = worker[w].id
  OBVIOUS
<1> DEFINE z == entries'[i].status
           u == worker'[w]
<1>1. /\ worker[w] \in Thread /\ worker[w].start \in Nat /\ worker[w].dl \in Nat
      /\ DoneOf(w) \in Nat /\ StatusOf(w) \in Status
      /\ worker \in [Workers -> Thread]
      /\ i \in DOMAIN entries => StatusOf(w) = entries[i].status
  <2>1. worker[w] \in Thread
    BY DEF Types
  <2>2. \A j \in DOMAIN entries : entries[j].done \in Nat /\ entries[j].status \in Status
    BY DEF Types, Entry
  <2> QED BY <1>0, <2>1, <2>2 DEF Types, Thread, DoneOf, StatusOf, Status
<1>2. ASSUME NEW s \in Status, NEW d \in Nat, Report(w, s, d)
      PROVE  i \in DOMAIN entries => z = s
  BY <1>0, <1>2, ReportIs
<1>3. \A pc \in {"read", "loop", "done"} : Goto(w, pc) => u.pc = pc
  BY GotoIs
<1>4. {"Queued", "Downloading", "Paused", "Completed", "Failed"} = Status
  BY DEF Status
<1> HIDE DEF z, u
<1> DEFINE Shows == /\ u.pc \in {"start", "sent"} =>
                          worker[w].pc \in {"start", "sent"} /\ UNCHANGED entries
                    /\ i \in DOMAIN entries =>
                         /\ z = "Downloading" =>
                              worker[w].pc = "sent" \/ entries[i].status = "Downloading"
                         /\ z = "Completed" => entries[i].status \in {"Downloading", "Completed"}
<1> SUFFICES Shows
  BY <1>0 DEF z, u
<1>5. CASE ReadProgress(w)
  <2>1. worker' = [worker EXCEPT ![w].pc = "sent", ![w].start = DoneOf(w)]
        /\ UNCHANGED entries /\ worker[w].pc = "start"
    BY <1>5 DEF ReadProgress
  <2> QED BY <2>1 DEF z
<1>6. CASE Respond(w)
  <2>1. PICK body \in Bodies(worker[w].start) :
            worker' = [worker EXCEPT ![w].pc = "open", ![w].dl = worker[w].start,
                        ![w].rest = SubSeq(body, 1, Min({Len(body), TakeLimit}))]
    BY <1>6 DEF Respond
  <2>2. u.pc = "open"
    BY <1>1, <2>1 DEF Thread, u
  <2>3. worker[w].pc = "sent" /\ (i \in DOMAIN entries => z = "Downloading")
    BY <1>1, <1>2, <1>4, <1>6 DEF Respond
  <2> QED BY <2>2, <2>3
<1>7. CASE RequestFails(w)
  BY <1>1, <1>2, <1>3, <1>4, <1>7 DEF RequestFails
<1>8. CASE OpenFile(w)
  BY <1>3, <1>8 DEF OpenFile, z
<1>9. CASE OpenFails(w)
  BY <1>1, <1>2, <1>3, <1>4, <1>9 DEF OpenFails
<1>10. CASE CheckCancel(w)
  <2>1. CASE worker[w].cancel
    BY <1>1, <1>2, <1>3, <1>4, <1>10, <2>1 DEF CheckCancel
  <2>2. CASE ~worker[w].cancel
    BY <1>3, <1>10, <2>2 DEF CheckCancel, z
  <2> QED BY <2>1, <2>2
<1>11. CASE ReadChunk(w)
  <2>1. u.pc = "loop"
    <3>1. worker' = [worker EXCEPT ![w].pc = "loop", ![w].dl = worker[w].dl + 1,
                                    ![w].rest = Tail(worker[w].rest)]
      BY <1>11 DEF ReadChunk
    <3> QED BY <1>1, <3>1 DEF Thread, u
  <2>2. i \in DOMAIN entries => z = entries[i].status
    <3> DEFINE d == worker[w].dl + 1
    <3>1. d \in Nat /\ (UNCHANGED entries \/ Report(w, StatusOf(w), d))
      BY <1>1, <1>11 DEF ReadChunk
    <3> HIDE DEF d
    <3> QED BY <1>1, <1>2, <3>1 DEF z
  <2> QED BY <2>1, <2>2
<1>12. CASE WriteFails(w)
  BY <1>1, <1>2, <1>3, <1>4, <1>12 DEF WriteFails
<1>13. CASE ReadFails(w)
  <2>1. PICK s \in {"Paused", "Failed"} : Report(w, s, worker[w].dl)
    BY <1>13 DEF ReadFails
  <2>2. (i \in DOMAIN entries => z = s) /\ u.pc = "done"
    BY <1>1, <1>2, <1>3, <1>4, <1>13, <2>1 DEF ReadFails
  <2> QED BY <2>2
<1>14. CASE Finish(w)
  <2> DEFINE s == IF StatusOf(w) = "Downloading" THEN "Completed" ELSE StatusOf(w)
  <2>1. s \in Status /\ Report(w, s, worker[w].dl) /\ u.pc = "done"
    BY <1>1, <1>3, <1>4, <1>14 DEF Finish
  <2>2. i \in DOMAIN entries => z = s
    BY <1>1, <1>2, <2>1
  <2> QED BY <1>1, <2>1, <2>2
<1> QED
  BY <1>5, <1>6, <1>7, <1>8, <1>9, <1>10, <1>11, <1>12, <1>13, <1>14 DEF WorkerStep

\* A step that moves no thread and takes no download out of the queue.
LEMMA QuietSingle ==
    ASSUME Single, UNCHANGED nextId,
           \A w \in Workers : /\ worker'[w].pc = worker[w].pc
                              /\ worker'[w].id = worker[w].id,
           DOMAIN entries' \subseteq DOMAIN entries,
           \A id \in DOMAIN entries' :
               entries[id].status = "Queued" => entries'[id].status = "Queued"
    PROVE  Single'
BY DEF Single, Live

\* A thread is spawned for a download that no thread works for.
LEMMA SpawnSingle ==
    ASSUME HeldInv, Single, NEW x \in Ids, NEW n \in Names, NEW h \in Workers,
           worker'[h] = New(x, n),
           \A w \in Workers : w # h => worker'[w] = worker[w],
           \A w \in Workers : worker[w].id = x => ~Live(w),
           x < nextId', nextId' >= nextId, nextId \in Nat, nextId' \in Nat,
           DOMAIN entries' = DOMAIN entries \cup {x},
           \A id \in DOMAIN entries : id # x => entries'[id] = entries[id],
           entries'[x].status = "Queued"
    PROVE  Single'
<1>1. worker'[h].id = x /\ worker'[h].pc = "start"
  BY NewThread
<1>2. \A w \in Workers : worker[w].id \in Nat
  BY DEF HeldInv, Types, Thread
<1>3. ASSUME NEW w \in Workers, w # h, Live(w)'
      PROVE  Live(w) /\ worker'[w].id # x /\ worker'[w] = worker[w]
  BY <1>3 DEF Live
<1>4. \A w \in Workers : Live(w)' => worker'[w].id < nextId'
  <2> TAKE w \in Workers
  <2> HAVE Live(w)'
  <2>1. CASE w = h
    BY <1>1, <2>1
  <2>2. CASE w # h
    <3>1. worker'[w].id < nextId /\ worker'[w].id \in Nat
      BY <1>2, <1>3, <2>2 DEF Single
    <3> QED BY <3>1
  <2> QED BY <2>1, <2>2
<1>5. \A v, w \in Workers : Live(v)' /\ Live(w)' /\ worker'[v].id = worker'[w].id => v = w
  <2> TAKE v, w \in Workers
  <2> HAVE Live(v)' /\ Live(w)' /\ worker'[v].id = worker'[w].id
  <2>1. CASE v # h /\ w # h
    BY <1>3, <2>1 DEF Single
  <2>2. CASE v = h /\ w # h
    BY <1>1, <1>3, <2>2
  <2>3. CASE v # h /\ w = h
    BY <1>1, <1>3, <2>3
  <2> QED BY <2>1, <2>2, <2>3
<1>6. \A w \in Workers : worker'[w].pc \in {"start", "sent"} /\ worker'[w].id \in DOMAIN entries'
                          => entries'[worker'[w].id].status = "Queued"
  <2> TAKE w \in Workers
  <2> HAVE worker'[w].pc \in {"start", "sent"} /\ worker'[w].id \in DOMAIN entries'
  <2>1. CASE w = h
    BY <1>1, <2>1
  <2>2. CASE w # h
    <3>1. worker'[w] = worker[w] /\ worker[w].id # x
      BY <1>3, <2>2 DEF Live
    <3>2. worker[w].id \in DOMAIN entries /\ entries'[worker[w].id] = entries[worker[w].id]
      BY <3>1
    <3> QED BY <3>1, <3>2 DEF Single
  <2> QED BY <2>1, <2>2
<1> QED BY <1>4, <1>5, <1>6 DEF Single

\* A new id is that of no thread that runs.
LEMMA SingleStart ==
    ASSUME HeldInv, Single, NEW n \in Names, Start(n)
    PROVE  Single'
<1>0. PICK x : x = nextId
  OBVIOUS
<1>1. Started(x, n)
  BY <1>0, StartLeaves
<1>2. PICK h \in Workers : /\ worker'[h] = New(x, n)
                           /\ \A w \in Workers : w # h => worker'[w] = worker[w]
  BY <1>1 DEF Started
<1>3. \A w \in Workers : worker[w].id = x => ~Live(w)
  BY <1>0, <1>1 DEF Single, Started
<1>4. x < nextId' /\ nextId' >= nextId /\ nextId \in Nat /\ nextId' \in Nat
  BY <1>0, <1>1 DEF Started
<1> QED BY <1>1, <1>2, <1>3, <1>4, SpawnSingle DEF Started

\* A download that is not resumed too early has no thread that runs.
LEMMA SingleResume ==
    ASSUME HeldInv, Single, "impatient" \notin faults, NEW id \in DOMAIN entries, Resume(id)
    PROVE  Single'
<1> DEFINE n == entries[id].name
<1>1. /\ id \in Ids /\ id < nextId /\ nextId \in Nat /\ UNCHANGED nextId
      /\ n \in Names /\ DOMAIN entries' = DOMAIN entries /\ entries'[id].status = "Queued"
      /\ \A j \in DOMAIN entries : j # id => entries'[j] = entries[j]
  BY ResumeLeaves
<1>2. PICK h \in Workers : /\ worker'[h] = New(id, n)
                           /\ \A w \in Workers : w # h => worker'[w] = worker[w]
  BY ResumeLeaves
<1>3. \A w \in Workers : worker[w].id = id => ~Live(w)
  BY DEF Resume, LiveFor
<1>4. id < nextId' /\ nextId' >= nextId /\ nextId' \in Nat
      /\ DOMAIN entries' = DOMAIN entries \cup {id}
  BY <1>1
<1> HIDE DEF n
<1> QED BY <1>1, <1>2, <1>3, <1>4, SpawnSingle

\* A pause takes no download out of the queue.
LEMMA SinglePause ==
    ASSUME HeldInv, Single, NEW id \in DOMAIN entries, Pause(id)
    PROVE  Single'
<1>1. worker' = Cancelled(id) /\ UNCHANGED nextId
  BY DEF Pause
<1>2. /\ DOMAIN entries' = DOMAIN entries
      /\ \A i \in DOMAIN entries :
            entries[i].status = "Queued" => entries'[i].status = "Queued"
  <2>0. entries \in [DOMAIN entries -> Entry]
    BY DEF HeldInv, Types
  <2>1. CASE UNCHANGED entries
    BY <2>0, <2>1
  <2>2. CASE entries[id].status = "Downloading"
             /\ entries' = [entries EXCEPT ![id].status = "Paused"]
    BY <2>0, <2>2
  <2> QED BY <2>1, <2>2 DEF Pause
<1> QED BY <1>1, <1>2, CancelIs, QuietSingle

\* A removal takes no other download out of the queue.
LEMMA SingleRemove ==
    ASSUME HeldInv, Single, NEW id \in DOMAIN entries, Remove(id)
    PROVE  Single'
<1>1. /\ worker' = Cancelled(id) /\ UNCHANGED nextId
      /\ entries' = [i \in DOMAIN entries \ {id} |-> entries[i]]
  BY DEF Remove
<1>2. DOMAIN entries' \subseteq DOMAIN entries
      /\ \A i \in DOMAIN entries' : entries'[i] = entries[i]
  BY <1>1
<1> QED BY <1>1, <1>2, CancelIs, QuietSingle

\* A thread's step: only one that has asked nothing yet, or has no answer,
\* leaves its download queued.
LEMMA SingleMoves ==
    ASSUME HeldInv, Single, NEW w \in Workers, WorkerStep(w), Moved(w)
    PROVE  Single'
<1>0. PICK i : i = worker[w].id
  OBVIOUS
<1>1. /\ Live(w) /\ worker'[w].id = i /\ worker'[w].pc # "idle"
      /\ \A v \in Workers : v # w => worker'[v] = worker[v]
      /\ \A id \in DOMAIN entries : id # i => entries'[id] = entries[id]
      /\ nextId' = nextId /\ DOMAIN entries' = DOMAIN entries
  BY <1>0 DEF Moved, HeldInv, Types
<1>2. worker'[w].pc \in {"start", "sent"} =>
           worker[w].pc \in {"start", "sent"} /\ UNCHANGED entries
  BY WorkerShows DEF HeldInv
<1>3. \A v \in Workers : worker'[v].id = worker[v].id /\ (Live(v)' => Live(v))
  BY <1>0, <1>1 DEF Live
<1>4. \A v \in Workers : worker'[v].pc \in {"start", "sent"} /\ worker'[v].id \in DOMAIN entries'
                          => entries'[worker'[v].id].status = "Queued"
  <2> TAKE v \in Workers
  <2> HAVE worker'[v].pc \in {"start", "sent"} /\ worker'[v].id \in DOMAIN entries'
  <2>1. CASE v = w
    BY <1>0, <1>1, <1>2, <2>1 DEF Single
  <2>2. CASE v # w
    <3>1. worker[v].id # i
      BY <1>0, <1>1, <2>2 DEF Single, Live
    <3> QED BY <1>1, <2>2, <3>1 DEF Single
  <2> QED BY <2>1, <2>2
<1> QED BY <1>1, <1>3, <1>4 DEF Single

\* A restart ends every thread and spawns one for each saved download.
LEMMA SingleRestart ==
    ASSUME HeldInv, Restart
    PROVE  Single'
<1>0. PICK ids : ids = DOMAIN saved
  OBVIOUS
<1>1. PICK threads, ents :
          /\ After(ids, threads, ents) /\ ids \subseteq 1..(nextId' - 1) /\ nextId' \in Nat
          /\ entries' = ents /\ DOMAIN ents = ids
          /\ \A i \in ids : ents[i].status = "Queued" /\ ents[i].name \in Names
          /\ \A w \in Workers : threads[w].pc \in {"idle", "done"}
  BY <1>0, RestartLeaves
<1>2. ASSUME NEW w \in Workers, Live(w)'
      PROVE  w > Used /\ w <= Used' /\ worker'[w].id \in ids
  <2>1. worker'[w].pc \notin {"idle", "done"}
    BY <1>2 DEF Live
  <2>2. ~(w <= Used)
    BY <1>1, <2>1 DEF After
  <2>3. w > Used /\ w <= Used'
    <3>1. Used \in Nat /\ w \in Nat
      BY DEF HeldInv, Slots, Workers
    <3>2. ~(w <= Used') => worker'[w] = Idle
      BY <1>1 DEF After
    <3> QED BY <2>1, <2>2, <3>1, <3>2, IdleThread
  <2>4. PICK i \in ids : worker'[w] = New(i, ents[i].name)
    BY <1>1, <2>3 DEF After
  <2>5. worker'[w].id = i
    <3>1. i \in Ids
      BY <1>0 DEF HeldInv, Slots, Ids
    <3> QED BY <1>1, <2>4, <3>1, NewThread
  <2> QED BY <2>3, <2>5
<1>3. \A w \in Workers : Live(w)' => worker'[w].id < nextId'
  <2> DEFINE k == nextId'
  <2>1. k \in Nat /\ \A i \in ids : i \in 1..(k - 1)
    BY <1>1
  <2> HIDE DEF k
  <2>2. \A i \in ids : i < k
    BY <2>1
  <2> QED BY <1>2, <2>2 DEF k
<1>4. \A v, w \in Workers : Live(v)' /\ Live(w)' /\ worker'[v].id = worker'[w].id => v = w
  BY <1>1, <1>2 DEF After
<1>5. \A w \in Workers : worker'[w].pc \in {"start", "sent"} /\ worker'[w].id \in DOMAIN entries'
                          => entries'[worker'[w].id].status = "Queued"
  BY <1>1
<1> QED BY <1>3, <1>4, <1>5 DEF Single

\* No thread was spawned at first.
LEMMA SingleInit == Init => SingleInv
<1> SUFFICES ASSUME Init PROVE Single
  BY DEF SingleInv
<1>1. \A w \in Workers : worker[w].pc = "idle"
  BY IdleThread DEF Init
<1> QED BY <1>1 DEF Single, Live

\* Every step keeps the threads apart.
LEMMA SingleStep == HeldInv /\ SingleInv /\ [Next]_vars => SingleInv'
<1> SUFFICES ASSUME HeldInv, SingleInv, [Next]_vars, "impatient" \notin faults'
             PROVE  Single'
  BY DEF SingleInv
<1>0. "impatient" \notin faults /\ Single
  BY DEF Next, vars, SingleInv
<1>1. CASE UNCHANGED vars
  BY <1>0, <1>1, QuietSingle DEF vars
<1>2. CASE UserStep
  BY <1>0, <1>2, SingleStart, SinglePause, SingleResume, SingleRemove DEF UserStep
<1>3. CASE Save
  BY <1>0, <1>3, QuietSingle DEF Save
<1>4. CASE Restart
  BY <1>4, SingleRestart
<1>5. CASE \E w \in Workers : WorkerStep(w)
  BY <1>0, <1>5, WorkerMoves, SingleMoves DEF HeldInv
<1> QED BY <1>1, <1>2, <1>3, <1>4, <1>5 DEF Next

\* The steps of the window and of the program.
LEMMA PauseStep == HeldInv /\ SingleInv /\ [Next]_vars => PauseHolds
<1> SUFFICES ASSUME HeldInv, SingleInv, [Next]_vars, "impatient" \notin faults,
                    NEW id \in DOMAIN entries \cap DOMAIN entries',
                    entries[id].status = "Paused"
             PROVE  entries'[id].status \notin {"Downloading", "Completed"}
  BY DEF PauseHolds
<1>0. Single /\ entries \in [DOMAIN entries -> Entry]
  BY DEF SingleInv, HeldInv, Types
<1>1. CASE UNCHANGED entries
  BY <1>1
<1>2. CASE \E n \in Names : Start(n)
  <2>1. PICK n \in Names : Start(n)
    BY <1>2
  <2>2. PICK x : x = nextId
    OBVIOUS
  <2>3. Started(x, n)
    BY <2>1, <2>2, StartLeaves
  <2>4. id # x
    BY <2>2 DEF HeldInv, Slots
  <2> QED BY <2>3, <2>4 DEF Started
<1>3. CASE \E i \in DOMAIN entries : Pause(i)
  BY <1>0, <1>3 DEF Pause
<1>4. CASE \E i \in DOMAIN entries : Resume(i)
  <2>1. PICK i \in DOMAIN entries : Resume(i)
    BY <1>4
  <2>2. entries'[i].status = "Queued" /\ \A j \in DOMAIN entries : j # i => entries'[j] = entries[j]
    BY <2>1, ResumeLeaves
  <2> QED BY <2>2
<1>5. CASE \E i \in DOMAIN entries : Remove(i)
  BY <1>5 DEF Remove
<1>6. CASE Restart
  BY <1>6, RestartLeaves
<1>7. CASE \E w \in Workers : WorkerStep(w)
  <2>1. PICK w \in Workers : WorkerStep(w)
    BY <1>7
  <2>2. Moved(w)
    BY <2>1, WorkerMoves DEF HeldInv
  <2>3. CASE worker[w].id = id
    <3>1. worker[w].pc # "sent"
      BY <1>0, <2>3 DEF Single
    <3> QED BY <2>1, <2>3, <3>1, WorkerShows DEF HeldInv
  <2>4. CASE worker[w].id # id
    BY <2>2, <2>4 DEF Moved
  <2> QED BY <2>3, <2>4
<1> QED BY <1>1, <1>2, <1>3, <1>4, <1>5, <1>6, <1>7 DEF Next, UserStep, Save, vars

\* Unless a download is resumed while its last thread still runs, a paused one
\* neither runs nor completes before it is resumed; in every other environment,
\* restarts and failed writes included.
THEOREM PausesHold == Spec => PausedUntilResumed
<1>1. Spec => [](HeldInv /\ SingleInv)
  BY HeldInit, HeldStep, SingleInit, SingleStep, PTL DEF Spec
<1> QED BY <1>1, PauseStep, PTL DEF Spec, PausedUntilResumed
===============================================================================
