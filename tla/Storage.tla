------------------------------ MODULE Storage -------------------------------
(***************************************************************************)
(* What a storage backend promises the layers above it (the BackendImpl    *)
(* trait): a set of immutable entries, each with a verification status,    *)
(* and the answers to queries as functions of the entries held.  Nothing   *)
(* here caches anything, and nothing that a flush covered is ever lost.    *)
(***************************************************************************)
EXTENDS EntryDag

CONSTANTS
    ID,       \* entry identifiers
    Tree,     \* identifiers of the tree roots that callers ask about
    Store,    \* store (subtree) names
    Worlds    \* the entry graphs considered: what each ID stands for

VARIABLES
    world,                \* the entry graph of this behaviour, never changed
    entries,              \* the IDs held
    verification_status,  \* status of each ID, "Absent" when not held
    durable               \* entries a returned flush guarantees to survive

vars == <<world, entries, verification_status, durable>>

Statuses == {"Unverified", "Verified", "Failed"}

(***************************************************************************)
(* Answers                                                                 *)
(***************************************************************************)

InTree(t) == {e \in entries : world.root[e] = t \/ e = t}

InStore(E, s) == {e \in E : s \in world.stores[e]}

StoreParents(s) == [e \in ID |-> world.storeParents[e][s]]

(* The frontier of a tree, and of one of its stores. *)
TreeTips(t) == Tips(world.parents, InTree(t))
StoreTips(t, s) == Tips(StoreParents(s), InStore(InTree(t), s))

(* The frontier a store had when the main tree stood at `main`. *)
StoreTipsAt(t, s, main) ==
    Tips(StoreParents(s), InStore(Reach(world.parents, InTree(t), main), s))

(***************************************************************************)
(* Behaviour                                                               *)
(***************************************************************************)

Init ==
    /\ world \in Worlds
    /\ entries = {}
    /\ verification_status = [e \in ID |-> "Absent"]
    /\ durable = {}

(* A second put of an entry that is held changes nothing, its status        *)
(* included.  A backend may make the entry durable at once.                 *)
Put(e) ==
    /\ entries' = entries \cup {e}
    /\ verification_status' =
         IF e \in entries THEN verification_status
         ELSE [verification_status EXCEPT ![e] = "Unverified"]
    /\ durable' \in {durable, durable \cup {e}}
    /\ UNCHANGED world

UpdateVerificationStatus(e, status) ==
    /\ e \in entries
    /\ verification_status' = [verification_status EXCEPT ![e] = status]
    /\ UNCHANGED <<world, entries, durable>>

(* A flush that returned Ok guarantees the entries it covered. *)
Flush(E) ==
    /\ durable' = durable \cup E
    /\ UNCHANGED <<world, entries, verification_status>>

(* A restart may lose entries, never one that a flush guaranteed, and may   *)
(* go back to an older status of the entries it keeps.                      *)
Restart ==
    /\ durable \subseteq entries'
    /\ entries' \subseteq entries
    /\ \A e \in ID : verification_status'[e] \in
                        (IF e \in entries' THEN Statuses ELSE {"Absent"})
    /\ UNCHANGED <<world, durable>>

Next ==
    \/ \E e \in ID : Put(e)
    \/ \E e \in ID, status \in Statuses : UpdateVerificationStatus(e, status)
    \/ \E E \in SUBSET entries : Flush(E)
    \/ Restart

Spec == Init /\ [][Next]_vars
=============================================================================
