---------------------------- MODULE WebStorage -----------------------------
(***************************************************************************)
(* What pages keep: localStorage with its quota (fortrust-storage,          *)
(* local_storage.rs), sessionStorage (fortrust-js, bindings/storage.rs) and *)
(* IndexedDB (indexed_db.rs of both).                                       *)
(*                                                                         *)
(* A local storage key is a number and as many bytes long; of a value only  *)
(* the length is kept.  The name of an IndexedDB database, store or record  *)
(* is the sequence of its parts between colons, so a key in the table of    *)
(* records is the concatenation of three names.                             *)
(***************************************************************************)
EXTENDS Naturals, Sequences, FiniteSets, SequencesExt, FiniteSetsExt, Functions

CONSTANTS
    ItemKeys,       \* lengths of local storage keys
    Lengths,        \* of local storage values
    Quota,          \* MAX_STORAGE_BYTES, 5 MB in the code
    DbNames, StoreNames, RecordNames, \* sequences of parts
    Versions

ASSUME WebAssumption ==
    /\ ItemKeys \subseteq Nat /\ Lengths \subseteq Nat /\ Quota \in Nat
    /\ \A name \in DbNames \cup StoreNames \cup RecordNames :
          name \in Seq(Range(name)) /\ name # <<>>

VARIABLES
    items,          \* local storage, from keys to the lengths of their values
    session,        \* the six maps of sessionStorage, one for each function
    meta,           \* the databases, from names to records of version and stores
    records,        \* from keys of the table to who wrote them
    handles,        \* the database objects scripts hold
    stale           \* history: keys written through a handle of a deleted database

webVars == <<items, session, meta, records, handles, stale>>

SessionCalls == {"getItem", "setItem", "removeItem", "clear", "length", "key"}

WebInit ==
    /\ items = <<>>
    /\ session = [f \in SessionCalls |-> {}]
    /\ meta = <<>> /\ records = <<>> /\ handles = {} /\ stale = {}

\* The insert of a map.
Inserted(map, key, value) ==
    [k \in DOMAIN map \cup {key} |-> IF k = key THEN value ELSE map[k]]

-----------------------------------------------------------------------------
(* localStorage.                                                           *)

\* The bytes of some keys and of their values, numbered for each key.
Bytes(stored, keys) == UNION {{key} \X (1 .. key + stored[key]) : key \in keys}

TotalBytes == Cardinality(Bytes(items, DOMAIN items))

OldLength(key) == IF key \in DOMAIN items THEN items[key] ELSE 0

\* Mutant of TotalAfter: what is written is not counted.
TotalNow(key, length) == TotalBytes

\* The length of the key is added and taken off, for a new key too.
TotalAfter(key, length) == TotalBytes + (key + length) - (key + OldLength(key))

\* An error goes to nobody: the script's setItem returns all the same.
SetItem(key, length) ==
    /\ TotalAfter(key, length) <= Quota
    /\ items' = Inserted(items, key, length)
    /\ UNCHANGED <<session, meta, records, handles, stale>>

RemoveItem(key) ==
    /\ items' = Restrict(items, DOMAIN items \ {key})
    /\ UNCHANGED <<session, meta, records, handles, stale>>

ClearItems == items' = <<>> /\ UNCHANGED <<session, meta, records, handles, stale>>

-----------------------------------------------------------------------------
(* sessionStorage: without a database each function has a map of its own.  *)

SetSession(map) ==
    /\ session' = [session EXCEPT !["setItem"] = map]
    /\ UNCHANGED <<items, meta, records, handles, stale>>

SetSessionItem(key) == SetSession(session["setItem"] \union {key})
GetSessionItem(key) == key \in session["getItem"]

-----------------------------------------------------------------------------
(* IndexedDB.                                                              *)

RecordKey(db, store, name) == db \o store \o name

\* indexedDB.open: any other version is written, a lower one too.
OpenDatabase(db, version) ==
    /\ LET stores == IF db \in DOMAIN meta THEN meta[db].stores ELSE {} IN
       meta' = Inserted(meta, db, [version |-> version, stores |-> stores])
    /\ handles' = handles \union {db}
    /\ UNCHANGED <<items, session, records, stale>>

\* createObjectStore, an error when the database is deleted.
CreateObjectStore(db, store) ==
    /\ db \in handles /\ db \in DOMAIN meta
    /\ meta' = [meta EXCEPT ![db].stores = @ \union {store}]
    /\ UNCHANGED <<items, session, records, handles, stale>>

\* A transaction checks the store against the names it was opened with and not
\* against the database: any store can be written, of a deleted database too.
Put(db, store, name) ==
    LET key == RecordKey(db, store, name) IN
    /\ db \in handles
    /\ records' = Inserted(records, key, <<db, store, name>>)
    /\ stale' = IF db \in DOMAIN meta THEN stale \ {key} ELSE stale \union {key}
    /\ UNCHANGED <<items, session, meta, handles>>

Drop(keys) ==
    /\ records' = Restrict(records, DOMAIN records \ keys)
    /\ stale' = stale \ keys

DeleteRecord(db, store, name) ==
    /\ db \in handles
    /\ Drop({RecordKey(db, store, name)})
    /\ UNCHANGED <<items, session, meta, handles>>

Below(prefix) == {k \in DOMAIN records : Len(k) > Len(prefix) /\ IsPrefix(prefix, k)}

\* get_all_records, getAll and count.
GetAll(db, store) == Below(db \o store)

ClearStore(db, store) ==
    /\ db \in handles
    /\ Drop(GetAll(db, store))
    /\ UNCHANGED <<items, session, meta, handles>>

\* Every key that begins with the name, which another name may do too.
DeleteDatabase(db) ==
    /\ meta' = Restrict(meta, DOMAIN meta \ {db})
    /\ Drop(Below(db))
    /\ UNCHANGED <<items, session, handles>>

\* The page goes, and with it the objects and the maps of sessionStorage.
PageEnds ==
    /\ handles' = {}
    /\ session' = [f \in SessionCalls |-> {}]
    /\ UNCHANGED <<items, meta, records, stale>>

ItemsNext ==
    \/ \E key \in ItemKeys : RemoveItem(key) \/ SetSessionItem(key)
    \/ \E key \in ItemKeys, length \in Lengths : SetItem(key, length)
    \/ ClearItems
    \/ PageEnds

DatabasesNext ==
    \/ \E db \in DbNames, version \in Versions : OpenDatabase(db, version)
    \/ \E db \in DbNames, store \in StoreNames : CreateObjectStore(db, store) \/ ClearStore(db, store)
    \/ \E db \in DbNames, store \in StoreNames, name \in RecordNames :
          Put(db, store, name) \/ DeleteRecord(db, store, name)
    \/ \E db \in DbNames : DeleteDatabase(db)
    \/ PageEnds

WebSpec == WebInit /\ [][ItemsNext \/ DatabasesNext]_webVars

-----------------------------------------------------------------------------
\* What an origin stores is bounded and found again. The quota of localStorage
\* (LocalStorageStore::set) is exceeded by at most one key, see WithinQuota: the
\* length of a new key is not counted when it is written, but is from then on, so
\* no sequence of writes and removals adds up two of them. And after deleteDatabase
\* (delete_database) a record whose database is not listed was written, through a
\* database object a script kept, after its database was deleted.
StoresBounded ==
    /\ DOMAIN items # {} => TotalBytes <= Quota + Max(DOMAIN items)
    /\ \A key \in DOMAIN records : records[key][1] \in DOMAIN meta \/ key \in stale

\* "Maximum total bytes for localStorage per database (5 MB)" (local_storage.rs:10),
\* which the code exceeds: LocalStorageStore::set takes the length of a key off
\* that is not there yet.
WithinQuota == TotalBytes <= Quota
=============================================================================
