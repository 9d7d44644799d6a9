-------------------------------- MODULE YDoc --------------------------------
(***************************************************************************)
(* The YDoc store (crates/lib/src/store/ydoc.rs): several handles of one    *)
(* transaction on a Y-CRDT document that save only what the backend does    *)
(* not have.  The yrs library is external: a document is a set of           *)
(* operations, an update is a set of them, applying one is a union, and the *)
(* update against a state vector is what is missing there.                  *)
(***************************************************************************)
EXTENDS Integers, FiniteSets

CONSTANTS
    Handles,  \* the handles of the transaction
    Op        \* operations

VARIABLES
    backend,  \* the operations committed before the transaction
    local,    \* the update staged in the transaction
    cache,    \* cache[h]: [known, data], the handle's copy of the backend
    edited,   \* the operations made through handles of this transaction
    commits   \* transactions committed so far

vars == <<backend, local, cache, edited, commits>>

Empty == [known |-> FALSE, data |-> {}]

(* get_cached_backend_data: one get_full_state per handle. *)
BackendData(h) == IF cache[h].known THEN cache[h].data ELSE backend
Remember(h) == cache' = [cache EXCEPT ![h] = [known |-> TRUE, data |-> BackendData(h)]]

(* doc(): the backend with the staged update applied. *)
InitialDoc(h) == BackendData(h)
CurrentDoc(h) == InitialDoc(h) \cup local

(* The update against a state vector. *)
EncodeSince(doc, known) == doc \ known

Init ==
    /\ backend = {}
    /\ local = {}
    /\ cache = [h \in Handles |-> Empty]
    /\ edited = {}
    /\ commits = 0

(* A faulty variant of SaveDoc: the state vector is that of doc(). *)
SaveSinceDoc(h, doc) == local' = EncodeSince(doc, CurrentDoc(h))

(* save_doc replaces the staged update by the difference to the backend. *)
SaveDoc(h, doc) == local' = EncodeSince(doc, InitialDoc(h))

(* with_doc_mut and apply_update change a fresh document and save it. *)
WithDocMut(h, op) ==
    /\ op \notin backend \cup edited
    /\ SaveDoc(h, CurrentDoc(h) \cup {op})
    /\ Remember(h)
    /\ edited' = edited \cup {op}
    /\ UNCHANGED <<backend, commits>>

(* save_doc_full stages the whole document. *)
SaveDocFull(h) ==
    /\ local' = CurrentDoc(h)
    /\ Remember(h)
    /\ UNCHANGED <<backend, edited, commits>>

(* The next transaction has handles of its own. *)
Commit ==
    /\ backend' = backend \cup local
    /\ local' = {}
    /\ cache' = [h \in Handles |-> Empty]
    /\ edited' = {}
    /\ commits' = commits + 1
    /\ commits < Cardinality(Op)

Next ==
    \/ \E h \in Handles : SaveDocFull(h) \/ \E op \in Op : WithDocMut(h, op)
    \/ Commit

Spec == Init /\ [][Next]_vars

(***************************************************************************)
(* Properties                                                              *)
(***************************************************************************)

(* Every edit made through any handle of the transaction is in what commit  *)
(* would store, and every handle's document shows it, although each save    *)
(* replaces the update staged by the saves before it.                       *)
EditsAccumulate ==
    /\ edited \subseteq backend \cup local
    /\ \A h \in Handles : edited \subseteq CurrentDoc(h)
=============================================================================
