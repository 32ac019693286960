------------------------------ MODULE FormData ------------------------------
(***************************************************************************)
(* The FormData objects of scripts (fortrust-js, bindings/dom_api.rs): the  *)
(* entries of all of them are in one store of the thread, by the number of  *)
(* the object.  What a script passes is turned into text first; a missing   *)
(* name or value is the empty text.                                         *)
(***************************************************************************)
EXTENDS Naturals, Sequences, SequencesExt, Retain

CONSTANTS
    EntryNames, EntryValues,    \* texts
    MaxObjects, MaxEntries      \* bounds: objects, entries of an object

ASSUME FormDataAssumption == {MaxObjects, MaxEntries} \subseteq Nat

VARIABLES
    stores,     \* FORM_DATA_STORE: the entries of each object
    kept        \* history: the values of each name of each object

formDataVars == <<stores, kept>>

FormDataInit == stores = <<>> /\ kept = <<>>

\* The constructor; its number is the next one.
NewFormData ==
    /\ Len(stores) < MaxObjects
    /\ stores' = Append(stores, <<>>)
    /\ kept' = Append(kept, [name \in EntryNames |-> <<>>])

\* append.
AppendEntry(d, name, value) ==
    /\ Len(stores[d]) < MaxEntries
    /\ stores' = [stores EXCEPT ![d] = Append(@, <<name, value>>)]
    /\ kept' = [kept EXCEPT ![d][name] = Append(@, value)]

\* retain.
Others(d, name) == Retained(stores[d], (EntryNames \ {name}) \X EntryValues)

\* delete.
DeleteEntries(d, name) ==
    /\ stores' = [stores EXCEPT ![d] = Others(d, name)]
    /\ kept' = [kept EXCEPT ![d][name] = <<>>]

\* set: one entry is left, at the end.
SetEntry(d, name, value) ==
    /\ Len(Others(d, name)) < MaxEntries
    /\ stores' = [stores EXCEPT ![d] = Append(Others(d, name), <<name, value>>)]
    /\ kept' = [kept EXCEPT ![d][name] = <<value>>]

FormDataNext ==
    \/ NewFormData
    \/ \E d \in DOMAIN stores, name \in EntryNames :
          \/ DeleteEntries(d, name)
          \/ \E value \in EntryValues : AppendEntry(d, name, value) \/ SetEntry(d, name, value)

FormDataSpec == FormDataInit /\ [][FormDataNext]_formDataVars

-----------------------------------------------------------------------------
\* filter.
EntriesOf(s, name) == Retained(s, {name} \X EntryValues)

ValuesOf(s, name) ==
    LET hits == EntriesOf(s, name) IN [i \in DOMAIN hits |-> hits[i][2]]

EntryGet(d, name) ==
    IF \E i \in DOMAIN stores[d] : stores[d][i][1] = name
    THEN Head(EntriesOf(stores[d], name))[2] ELSE "null"

EntryGetAll(d, name) == ValuesOf(stores[d], name)

EntryHas(d, name) == \E i \in DOMAIN stores[d] : stores[d][i][1] = name

\* Each object is a map from names to sequences of values, in the order they were
\* appended (register_form_data): what is done under one name, or to one object of
\* the shared store, is not seen under another.
EntriesAgree ==
    \A d \in DOMAIN stores, name \in EntryNames :
        /\ EntryGetAll(d, name) = kept[d][name]
        /\ EntryHas(d, name) <=> kept[d][name] # <<>>
        /\ EntryGet(d, name) = IF kept[d][name] = <<>> THEN "null" ELSE kept[d][name][1]
=============================================================================
