---------------------------- MODULE Transaction ----------------------------
(***************************************************************************)
(* Transactions on one database (crates/lib/src/transaction/mod.rs) and    *)
(* the EntryBuilder they fill.  A transaction is anchored at a snapshot    *)
(* when it begins; it records the store-level parents of a store when it   *)
(* first touches that store, and becomes one entry when it commits.        *)
(*                                                                         *)
(* Two paths ask the backend for more than one thing and may see a commit  *)
(* in between: get_full_state compares the tips of the tree with its       *)
(* anchor and then asks for the tips of the store.  The others depend on   *)
(* the anchor alone, and the entries below it never change.                *)
(*                                                                         *)
(* What a store holds is abstracted to the set of entries that make up its *)
(* history; of `_index`, to the names of the stores that are registered.   *)
(***************************************************************************)
EXTENDS EntryDag, Sequences

CONSTANTS
    Txn,         \* transactions, each used once
    UserStore,   \* stores other than the system's
    MaxEntries   \* bound on the entries of the database

VARIABLES
    log,      \* the committed entries, in order of commit; log[1] is the root
    builder,  \* for every transaction: what its EntryBuilder holds
    pending   \* for every transaction: the call it is in the middle of

vars == <<log, builder, pending>>

Settings == "_settings"
Index == "_index"
AllStores == UserStore \cup {Settings, Index}

(***************************************************************************)
(* The backend: snapshot, store_snapshot, store_snapshot_at                *)
(***************************************************************************)

held == DOMAIN log
Parents == [e \in held |-> log[e].parents]
StoreParents(s) == [e \in held |-> log[e].storeParents[s]]
InStore(s) == {e \in held : s \in log[e].stores}

Snapshot == Tips(Parents, held)
StoreSnapshot(s) == Tips(StoreParents(s), InStore(s))
StoreSnapshotAt(s, main) ==
    Tips(StoreParents(s), InStore(s) \cap Reach(Parents, held, main))

(* The entries merged into the state of store s that is read at tips P. *)
History(s, P) == Reach(StoreParents(s), InStore(s), P)

(***************************************************************************)
(* The builder                                                             *)
(***************************************************************************)

(* status: "unused", "open", "settings" (commit has begun) or "done".       *)
(* `stores` are the subtree nodes, `data` those whose data is not None, and *)
(* `registers` the keys of the staged data of `_index`.                     *)
Fresh == [status |-> "unused", parents |-> {}, stores |-> {}, data |-> {},
          registers |-> {}, storeParents |-> [s \in AllStores |-> {}],
          seen |-> {}]

NoCall == [call |-> "none"]

TypeOK ==
    /\ \A e \in held :
          log[e].parents \subseteq 1..(e-1) /\ log[e].stores \subseteq AllStores
    /\ \A t \in Txn :
          /\ builder[t].status \in {"unused", "open", "settings", "done"}
          /\ builder[t].data \subseteq builder[t].stores
          /\ builder[t].stores \subseteq AllStores

Init ==
    /\ log = <<[parents |-> {}, stores |-> {Settings}, registers |-> {},
                storeParents |-> [s \in AllStores |-> {}]]>>
    /\ builder = [t \in Txn |-> Fresh]
    /\ pending = [t \in Txn |-> NoCall]

InNoCall(t) == builder[t].status = "open" /\ pending[t] = NoCall

(* set_subtree_parents_mut: the node is created without data if there is none. *)
WithParents(b, s, P) ==
    [b EXCEPT !.stores = @ \cup {s}, !.storeParents[s] = P]

(* init_subtree_parents: the parents of a store are looked up below the     *)
(* anchor, once.                                                            *)
InitSubtreeParents(b, s) ==
    IF s \in b.stores THEN b ELSE WithParents(b, s, StoreSnapshotAt(s, b.parents))

(* set_subtree_data_mut *)
WithData(b, s) == [b EXCEPT !.stores = @ \cup {s}, !.data = @ \cup {s}]

(***************************************************************************)
(* Operations of a transaction                                             *)
(***************************************************************************)

(* new_at: anchored at the current snapshot, or at any entry of the tree. *)
NewAt(t, snapshot) ==
    /\ builder[t].status = "unused"
    /\ snapshot # {}
    /\ builder' = [builder EXCEPT ![t].status = "open", ![t].parents = snapshot]
    /\ UNCHANGED <<log, pending>>

(* The names in `_index`, as the transaction sees them. *)
Registered(b) ==
    b.registers
    \cup UNION {log[e].registers : e \in History(Index, b.storeParents[Index])}

(* get_store: the parents of the store and of `_index` are recorded; a      *)
(* store that is not in `_index` is registered by staging data for it.      *)
GetStore(t, s) ==
    /\ InNoCall(t)
    /\ s \in UserStore
    /\ LET b == InitSubtreeParents(InitSubtreeParents(builder[t], s), Index)
       IN  builder' = [builder EXCEPT ![t] =
                         IF s \in Registered(b) THEN b
                         ELSE [WithData(b, Index) EXCEPT !.registers = @ \cup {s}]]
    /\ UNCHANGED <<log, pending>>

(* update_subtree, from the first set on a handle: a store the builder does *)
(* not know gets the store's current tips.  That is `_settings`, whose      *)
(* handle does not go through get_store.                                    *)
UpdateSubtree(t, s) ==
    /\ InNoCall(t)
    /\ s \in builder[t].stores \cup {Settings}
    /\ s # Index
    /\ builder' = [builder EXCEPT ![t] =
                     IF s \in @.stores THEN WithData(@, s)
                     ELSE WithParents(WithData(@, s), s, StoreSnapshot(s))]
    /\ UNCHANGED <<log, pending>>

(* get_full_state, the first query: is the anchor still the whole tree? *)
AskFullState(t, s) ==
    [call |-> "full_state", store |-> s, whole |-> builder[t].parents = Snapshot]

(* A faulty variant of FullStateTips: it trusts the anchor alone and so     *)
(* misses what the store gained below other tips of a merged tree.          *)
TipsInAnchor(t) == InStore(pending[t].store) \cap builder[t].parents

(* A faulty variant of FullStateTips: parents already recorded are ignored. *)
TipsAskedAgain(t) == StoreSnapshot(pending[t].store)

(* get_full_state, the second query: what it reads the state at. *)
FullStateTips(t) ==
    LET s == pending[t].store
    IN  IF s \in builder[t].stores THEN builder[t].storeParents[s]
        ELSE IF pending[t].whole THEN StoreSnapshot(s)
        ELSE StoreSnapshotAt(s, builder[t].parents)

(* A read of a store through its handle, from the call to its result. *)
BeginRead(t, s) ==
    /\ InNoCall(t)
    /\ s \in builder[t].stores \cup {Settings}
    /\ pending' = [pending EXCEPT ![t] = AskFullState(t, s)]
    /\ UNCHANGED <<log, builder>>

EndRead(t) ==
    /\ builder[t].status = "open" /\ pending[t].call = "full_state"
    /\ LET s == pending[t].store
           P == FullStateTips(t)
       IN  builder' = [builder EXCEPT ![t] =
                         [WithParents(@, s, P) EXCEPT !.seen = @ \cup {<<s, P>>}]]
    /\ pending' = [pending EXCEPT ![t] = NoCall]
    /\ UNCHANGED log

(* commit begins with get_full_state of `_settings`. *)
BeginCommit(t) ==
    /\ InNoCall(t)
    /\ builder' = [builder EXCEPT ![t].status = "settings"]
    /\ pending' = [pending EXCEPT ![t] = AskFullState(t, Settings)]
    /\ UNCHANGED log

(* Stores named in the staged `_index` must be in the entry. *)
WithIndexed(b) ==
    LET missing == b.registers \ b.stores
    IN  [b EXCEPT !.stores = @ \cup missing,
                  !.storeParents = [s \in AllStores |->
                      IF s \in missing THEN StoreSnapshotAt(s, b.parents)
                      ELSE b.storeParents[s]]]

(* remove_empty_subtrees_mut keeps nodes with data, and those that the      *)
(* staged `_index` names.                                                   *)
RemoveEmpty(b) == [b EXCEPT !.stores = @ \cap (b.data \cup b.registers)]

(* The rest of commit: the settings are read, the entry is built and put. *)
Commit(t) ==
    /\ builder[t].status = "settings"
    /\ Len(log) < MaxEntries
    /\ LET read == WithParents(builder[t], Settings, FullStateTips(t))
           b == RemoveEmpty(WithIndexed(read))
       IN  /\ log' = Append(log, [parents |-> b.parents, stores |-> b.stores,
                                  registers |-> b.registers,
                                  storeParents |-> [s \in AllStores |->
                                      IF s \in b.stores THEN b.storeParents[s]
                                      ELSE {}]])
           /\ builder' = [builder EXCEPT ![t] =
                [Fresh EXCEPT !.status = "done", !.parents = b.parents,
                   !.seen = builder[t].seen \cup {<<Settings, FullStateTips(t)>>}]]
    /\ pending' = [pending EXCEPT ![t] = NoCall]

Next ==
    \E t \in Txn :
        \/ \E e \in held : NewAt(t, {e})
        \/ NewAt(t, Snapshot)
        \/ \E s \in UserStore : GetStore(t, s)
        \/ \E s \in AllStores : UpdateSubtree(t, s)
        \/ \E s \in AllStores : BeginRead(t, s)
        \/ EndRead(t)
        \/ BeginCommit(t)
        \/ Commit(t)

Spec == Init /\ [][Next]_vars

(***************************************************************************)
(* Properties                                                              *)
(***************************************************************************)

(* An entry never leaves out of a store's history what its main parents had *)
(* of that store: whoever merges the store at this entry sees at least the  *)
(* store as its author's anchor had it.                                     *)
StoreHistoryIsWhole ==
    \A e \in held : \A s \in log[e].stores :
        InStore(s) \cap Reach(Parents, held, log[e].parents)
            \subseteq History(s, log[e].storeParents[s])

(* Within a transaction every read of a store sees the same history. *)
RepeatableReads ==
    \A t \in Txn : \A a, b \in builder[t].seen :
        a[1] = b[1] => History(a[1], a[2]) = History(b[1], b[2])
=============================================================================
