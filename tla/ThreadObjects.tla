---------------------------- MODULE ThreadObjects ----------------------------
(***************************************************************************)
(* What belongs to a thread of scripts and not to one of its pages: the     *)
(* network client of fetch, and the store of the FormData objects.          *)
(***************************************************************************)
EXTENDS Fetch, FormData

ObjectsSpec == FetchSpec /\ FormDataSpec

\* What fetch and FormData give to scripts agrees with what went in, whatever the
\* pages before have left (fetch.rs, register_form_data): see ResponsesAgree and
\* EntriesAgree.
ObjectsAgree == ResponsesAgree /\ EntriesAgree
=============================================================================
