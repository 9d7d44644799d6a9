------------------------------ MODULE InMemory ------------------------------
(***************************************************************************)
(* The in-memory backend: entries, statuses and the two-level tip cache,   *)
(* all behind one RwLock, and the JSON image that `Instance::flush` writes *)
(* through a temporary file.  Every operation is one critical section of   *)
(* the RwLock.  `snapshot` and `store_snapshot` first look at the cache    *)
(* under the read lock and, on a miss, run the whole function again under  *)
(* the write lock; nothing is carried from the first look to the second,   *)
(* so one action stands for both.                                          *)
(***************************************************************************)
EXTENDS EntryDag

CONSTANTS
    ID, Tree, Store, Worlds,
    NoCache,     \* a tree or store without a cache entry
    StatusWrites,  \* the statuses that callers write
    Flushers     \* threads that may call Instance::flush

VARIABLES
    world,                \* the entry graph of this behaviour, never changed
    entries,              \* InMemoryInner.entries
    verification_status,  \* InMemoryInner.verification_status
    treeTips,             \* tips[t].tree_tips
    storeTips,            \* tips[t].subtree_tips[s]
    flusher,              \* where each flushing thread is
    image,                \* the clone a flushing thread is writing out
    saver,                \* threads inside the snapshot_path mutex
    file,                 \* the JSON file that a restart loads
    durable               \* entries covered by a flush that returned Ok

memory == <<entries, verification_status, treeTips, storeTips>>
saving == <<flusher, image, saver, file, durable>>
vars == <<world, memory, saving>>

S == INSTANCE Storage

ASSUME NoCacheIsNoSet == \A X \in SUBSET ID : X # NoCache

(* The identifiers asked about are those of root entries, and every entry   *)
(* names one of them as its root.                                           *)
ASSUME WorldsWellFormed ==
    /\ Tree \subseteq ID
    /\ \A w \in Worlds :
         /\ w.parents \in [ID -> SUBSET ID]
         /\ w.root \in [ID -> Tree]
         /\ \A t \in Tree : w.root[t] = t
         /\ w.stores \in [ID -> SUBSET Store]
         /\ w.storeParents \in [ID -> [Store -> SUBSET ID]]

ASSUME StatusWritesAreStatuses == StatusWrites \subseteq S!Statuses

Statuses == {"Unverified", "Verified", "Failed"}

(* A cached set of tips, or none. *)
CachedTips == (SUBSET ID) \cup {NoCache}

Image == [entries : SUBSET ID,
          status : [ID -> Statuses \cup {"Absent"}],
          treeTips : [Tree -> CachedTips],
          storeTips : [Tree -> [Store -> CachedTips]]]

(* InMemory::new, which is also what a load finds when there is no file. *)
EmptyImage ==
    [entries |-> {},
     status |-> [e \in ID |-> "Absent"],
     treeTips |-> [t \in Tree |-> NoCache],
     storeTips |-> [t \in Tree |-> [s \in Store |-> NoCache]]]

Init ==
    /\ world \in Worlds
    /\ entries = EmptyImage.entries
    /\ verification_status = EmptyImage.status
    /\ treeTips = EmptyImage.treeTips
    /\ storeTips = EmptyImage.storeTips
    /\ flusher = [f \in Flushers |-> "idle"]
    /\ image = [f \in Flushers |-> EmptyImage]
    /\ saver = {}
    /\ file = EmptyImage
    /\ durable = {}

(***************************************************************************)
(* What the queries return                                                 *)
(***************************************************************************)

(* Entry::in_tree. *)
InTree(held, t) == {e \in held : world.root[e] = t \/ e = t}

(* update_tips_for_tree: recomputed from all the entries of the tree. *)
RecomputedTreeTips(held, t) == Tips(world.parents, InTree(held, t))

(* The subtree half of `put`, and compute_store_tips_from_all_entries. *)
RecomputedStoreTips(held, t, s) ==
    LET inStore == {e \in InTree(held, t) : s \in world.stores[e]}
    IN  {e \in inStore : \A o \in inStore : e \notin world.storeParents[o][s]}

(* traversal::snapshot: the cached tips, else computed from the entries;    *)
(* a root entry counts only for the tree that carries its own ID.           *)
SnapshotResult(t) ==
    IF treeTips[t] # NoCache THEN treeTips[t]
    ELSE {e \in InTree(entries, t) :
            /\ \A o \in InTree(entries, t) : e \notin world.parents[o]
            /\ world.root[e] = e => e = t}

(* traversal::store_snapshot. *)
StoreSnapshotResult(t, s) ==
    IF storeTips[t][s] # NoCache THEN storeTips[t][s]
    ELSE RecomputedStoreTips(entries, t, s)

(* A faulty variant of ScopedStoreTips: descendants outside the scope count. *)
ScopedAgainstWholeStore(t, s, main) ==
    LET scope == Reach(world.parents, InTree(entries, t), main)
    IN  {e \in scope : s \in world.stores[e]}
          \ UNION {world.storeParents[e][s] : e \in InTree(entries, t)}

(* The slow half of traversal::store_snapshot_at: the store's entries among *)
(* those reachable from `main`, less those that are a store parent of       *)
(* another one in that scope.                                               *)
ScopedStoreTips(t, s, main) ==
    LET scope == Reach(world.parents, InTree(entries, t), main)
        inStore == {e \in scope : s \in world.stores[e]}
    IN  inStore \ UNION {world.storeParents[e][s] : e \in inStore}

(* `main` is compared with the current tips as a list.  It is sorted and    *)
(* the tips come in hash order, so two or more equal tips may miss.         *)
FastPath(t, main) == main = SnapshotResult(t)
SlowPath(t, main) == main = SnapshotResult(t) => Cardinality(main) > 1

(* What store_snapshot_at may return; it is an error for the slow path to   *)
(* meet an ID outside the tree.                                             *)
StoreSnapshotAtResults(t, s, main) ==
    {ids \in {{}} : main = {}}
    \cup {ids \in {StoreSnapshotResult(t, s)} : main # {} /\ FastPath(t, main)}
    \cup {ids \in {ScopedStoreTips(t, s, main)} :
            /\ main # {} /\ SlowPath(t, main)
            /\ main \subseteq InTree(entries, t)}

(***************************************************************************)
(* Operations                                                              *)
(***************************************************************************)

(* storage::put.  An entry that is held already is left alone, its status   *)
(* included; a new one starts Unverified, and the tips of its tree and of   *)
(* each of its stores are recomputed.                                       *)
Put(e) ==
    LET t == world.root[e]
        held == entries \cup {e}
    IN  /\ e \notin entries
        /\ entries' = held
        /\ verification_status' =
             [verification_status EXCEPT ![e] = "Unverified"]
        /\ treeTips' = [treeTips EXCEPT ![t] = RecomputedTreeTips(held, t)]
        /\ storeTips' =
             [storeTips EXCEPT ![t] = [s \in Store |->
                IF s \in world.stores[e] THEN RecomputedStoreTips(held, t, s)
                ELSE storeTips[t][s]]]
        /\ UNCHANGED <<world, saving>>

(* storage::put of an entry that is held: the early return. *)
PutAgain(e) ==
    /\ e \in entries
    /\ UNCHANGED vars

(* InMemory::update_verification_status: an error unless a status exists. *)
UpdateVerificationStatus(e, status) ==
    /\ verification_status[e] # "Absent"
    /\ verification_status' = [verification_status EXCEPT ![e] = status]
    /\ UNCHANGED <<world, entries, treeTips, storeTips, saving>>

(* InMemory::snapshot, both lock scopes: fills the tree's cache. *)
Snapshot(t) ==
    /\ treeTips' = [treeTips EXCEPT ![t] = SnapshotResult(t)]
    /\ UNCHANGED <<world, entries, verification_status, storeTips, saving>>

(* InMemory::store_snapshot.  A miss creates the tree's cache entry if it   *)
(* has none (HashMap::entry(t).or_default()), with no tree tips in it.      *)
StoreSnapshot(t, s) ==
    /\ storeTips' = [storeTips EXCEPT ![t][s] = StoreSnapshotResult(t, s)]
    /\ treeTips' =
         [treeTips EXCEPT ![t] = IF treeTips[t] = NoCache THEN {} ELSE @]
    /\ UNCHANGED <<world, entries, verification_status, saving>>

(* InMemory::store_snapshot_at: takes the tree's tips first, then fills the *)
(* store's cache on the fast path only.  The slow path ends here even when  *)
(* it fails.                                                                *)
StoreSnapshotAt(t, s, main) ==
    /\ main # {}
    /\ treeTips' = [treeTips EXCEPT ![t] = SnapshotResult(t)]
    /\ \/ /\ FastPath(t, main)
          /\ storeTips' = [storeTips EXCEPT ![t][s] = StoreSnapshotResult(t, s)]
       \/ /\ SlowPath(t, main)
          /\ UNCHANGED storeTips
    /\ UNCHANGED <<world, entries, verification_status, saving>>

(***************************************************************************)
(* Instance::flush and restart                                             *)
(***************************************************************************)

(* A faulty variant of FlushLock: the mutex is not waited for. *)
FlushWithoutMutex(f) ==
    /\ flusher[f] = "idle"
    /\ saver' = {f}
    /\ flusher' = [flusher EXCEPT ![f] = "locked"]
    /\ UNCHANGED <<world, memory, image, file, durable>>

(* flush holds the snapshot_path mutex until the file has been renamed. *)
FlushLock(f) ==
    /\ flusher[f] = "idle"
    /\ saver = {}
    /\ saver' = {f}
    /\ flusher' = [flusher EXCEPT ![f] = "locked"]
    /\ UNCHANGED <<world, memory, image, file, durable>>

(* save_to_file clones the whole database under the read lock. *)
FlushClone(f) ==
    /\ flusher[f] = "locked"
    /\ flusher' = [flusher EXCEPT ![f] = "cloned"]
    /\ image' = [image EXCEPT ![f] =
         [entries |-> entries, status |-> verification_status,
          treeTips |-> treeTips, storeTips |-> storeTips]]
    /\ UNCHANGED <<world, memory, saver, file, durable>>

(* The temporary file is complete and is renamed over the JSON file; flush  *)
(* returns Ok.                                                              *)
FlushRename(f) ==
    /\ flusher[f] = "cloned"
    /\ file' = image[f]
    /\ durable' = durable \cup image[f].entries
    /\ flusher' = [flusher EXCEPT ![f] = "idle"]
    /\ image' = [image EXCEPT ![f] = EmptyImage]
    /\ saver' = saver \ {f}
    /\ UNCHANGED <<world, memory>>

(* Writing or renaming the temporary file fails; flush returns the error. *)
FlushFail(f) ==
    /\ flusher[f] = "cloned"
    /\ flusher' = [flusher EXCEPT ![f] = "idle"]
    /\ image' = [image EXCEPT ![f] = EmptyImage]
    /\ saver' = saver \ {f}
    /\ UNCHANGED <<world, memory, file, durable>>

(* The process dies at any point; the next one loads the file, or starts    *)
(* empty when there is none.  The tips cache is loaded, not recomputed.     *)
Restart ==
    /\ entries' = file.entries
    /\ verification_status' = file.status
    /\ treeTips' = file.treeTips
    /\ storeTips' = file.storeTips
    /\ flusher' = [f \in Flushers |-> "idle"]
    /\ image' = [f \in Flushers |-> EmptyImage]
    /\ saver' = {}
    /\ UNCHANGED <<world, file, durable>>

Write ==
    \/ \E e \in ID : Put(e) \/ PutAgain(e)
    \/ \E e \in ID, status \in StatusWrites : UpdateVerificationStatus(e, status)

Read ==
    \/ \E t \in Tree : Snapshot(t)
    \/ \E t \in Tree, s \in Store : StoreSnapshot(t, s)
    \/ \E t \in Tree, s \in Store, main \in SUBSET ID :
         StoreSnapshotAt(t, s, main)

Persist ==
    \/ \E f \in Flushers :
         FlushLock(f) \/ FlushClone(f) \/ FlushRename(f) \/ FlushFail(f)
    \/ Restart

Next == Write \/ Read \/ Persist

Spec == Init /\ [][Next]_vars

(***************************************************************************)
(* Properties                                                              *)
(***************************************************************************)

(* The variables keep their types. *)
TypeOK ==
    /\ world \in Worlds
    /\ entries \subseteq ID
    /\ verification_status \in [ID -> Statuses \cup {"Absent"}]
    /\ treeTips \in [Tree -> CachedTips]
    /\ storeTips \in [Tree -> [Store -> CachedTips]]
    /\ flusher \in [Flushers -> {"idle", "locked", "cloned"}]
    /\ image \in [Flushers -> Image]
    /\ saver \subseteq Flushers
    /\ file \in Image
    /\ durable \subseteq ID

(* Whatever order entries arrive in and whenever queries fill the cache, a  *)
(* cache entry holds exactly the tips of the entries held now               *)
(* (storage::put, traversal::snapshot and store_snapshot, reload).          *)
TipsExact ==
    \A t \in Tree :
        /\ treeTips[t] # NoCache => treeTips[t] = S!TreeTips(t)
        /\ \A s \in Store : storeTips[t][s] # NoCache =>
             storeTips[t][s] = S!StoreTips(t, s)

(* What a good cache is: exact where it has tips, and present for a tree    *)
(* that has entries, so that store_snapshot creates an empty one only where *)
(* {} is right.                                                             *)
CacheGood(E, tt, st) ==
    \A t \in Tree :
        /\ InTree(E, t) # {} => tt[t] # NoCache
        /\ tt[t] # NoCache => tt[t] = RecomputedTreeTips(E, t)
        /\ \A s \in Store :
             st[t][s] # NoCache => st[t][s] = RecomputedStoreTips(E, t, s)

StatusGood(E, status) == \A e \in ID : e \in E <=> status[e] # "Absent"

ImageGood(i) ==
    /\ i \in Image
    /\ CacheGood(i.entries, i.treeTips, i.storeTips)
    /\ StatusGood(i.entries, i.status)
    /\ durable \subseteq i.entries
    /\ i.entries \subseteq entries

(* Why TipsExact is kept: the cache is good in memory, in the image that a  *)
(* flush is writing and in the file; only one flush runs at a time.         *)
CacheInv ==
    /\ TypeOK
    /\ CacheGood(entries, treeTips, storeTips)
    /\ StatusGood(entries, verification_status)
    /\ \A f \in Flushers : flusher[f] # "idle" => saver = {f}
    /\ \A f \in Flushers : flusher[f] = "cloned" => ImageGood(image[f])
    /\ ImageGood(file)

(* store_snapshot_at never depends on which of its paths answers: cached,   *)
(* recomputed or walked from `main`, it returns the store tips among the    *)
(* ancestors of `main`, orphans and missing parents included.               *)
StoreSnapshotAtExact ==
    \A t \in Tree, s \in Store, main \in SUBSET ID :
        StoreSnapshotAtResults(t, s, main) \subseteq {S!StoreTipsAt(t, s, main)}

(* No step but a restart loses an entry, none invents a status, and a       *)
(* restart, whatever two concurrent flushes were doing, never loses what a  *)
(* flush that returned Ok covered: the backend implements Storage.          *)
ImplementsStorage == S!Spec
=============================================================================
