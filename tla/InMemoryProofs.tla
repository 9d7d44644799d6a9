--------------------------- MODULE InMemoryProofs ---------------------------
(***************************************************************************)
(* The tip caches of the in-memory backend are exact, and the backend      *)
(* implements Storage, for every set of entries, trees, stores and threads *)
(* and every entry graph.                                                  *)
(***************************************************************************)
EXTENDS InMemory, TLAPS

(* Adding an entry leaves the entries of the other trees as they were. *)
LEMMA OtherTreesUntouched ==
    ASSUME world \in Worlds, NEW e \in ID, NEW t \in Tree, world.root[e] # t,
           NEW E
    PROVE  InTree(E \cup {e}, t) = InTree(E, t)
<1>1. e # t
  BY WorldsWellFormed
<1>. QED
  BY <1>1 DEF InTree

(* put (storage::put) keeps the caches of all trees exact. *)
LEMMA PutKeepsCaches ==
    ASSUME CacheInv, NEW e \in ID, Put(e)
    PROVE  CacheGood(entries, treeTips, storeTips)'
<1>. DEFINE r == world.root[e]
            held == entries \cup {e}
<1>1. /\ world \in Worlds /\ world' = world /\ r \in Tree
      /\ world.stores[e] \subseteq Store
  BY WorldsWellFormed DEF CacheInv, TypeOK, Put
<1>2. /\ entries' = held
      /\ treeTips \in [Tree -> CachedTips]
      /\ storeTips \in [Tree -> [Store -> CachedTips]]
      /\ CacheGood(entries, treeTips, storeTips)
      /\ e \notin entries
  BY DEF CacheInv, TypeOK, Put
<1>3. treeTips'[r] = RecomputedTreeTips(held, r)
  BY <1>1, <1>2 DEF Put
<1>4. \A s \in Store : storeTips'[r][s] =
         IF s \in world.stores[e] THEN RecomputedStoreTips(held, r, s)
         ELSE storeTips[r][s]
  BY <1>1, <1>2 DEF Put
<1>5. \A t \in Tree : t # r => /\ treeTips'[t] = treeTips[t]
                              /\ storeTips'[t] = storeTips[t]
  BY <1>1, <1>2 DEF Put
<1>6. ASSUME NEW t \in Tree
      PROVE  /\ InTree(entries, t)' # {} => treeTips'[t] # NoCache
             /\ treeTips'[t] # NoCache
                  => treeTips'[t] = RecomputedTreeTips(entries, t)'
  <2>1. CASE t = r
    <3>1. RecomputedTreeTips(entries, t)' = RecomputedTreeTips(held, r)
      BY <1>1, <1>2, <2>1 DEF RecomputedTreeTips, Tips, InTree
    <3>2. RecomputedTreeTips(held, r) \in SUBSET ID
      BY DEF RecomputedTreeTips, Tips, InTree, CacheInv, TypeOK
    <3>. QED
      BY <1>3, <2>1, <3>1, <3>2, NoCacheIsNoSet
  <2>2. CASE t # r
    <3>1. InTree(entries, t)' = InTree(entries, t)
      <4>1. InTree(held, t) = InTree(entries, t)
        BY <1>1, <2>2, OtherTreesUntouched
      <4>. QED
        BY <1>1, <1>2, <4>1 DEF InTree
    <3>2. RecomputedTreeTips(entries, t)' = RecomputedTreeTips(entries, t)
      BY <1>1, <3>1 DEF RecomputedTreeTips, Tips
    <3>. QED
      BY <1>2, <1>5, <2>2, <3>1, <3>2 DEF CacheGood
  <2>. QED
    BY <2>1, <2>2
<1>7. ASSUME NEW t \in Tree, NEW s \in Store, storeTips'[t][s] # NoCache
      PROVE  storeTips'[t][s] = RecomputedStoreTips(entries, t, s)'
  <2>1. CASE t = r /\ s \in world.stores[e]
    BY <1>1, <1>2, <1>4, <2>1, Zenon DEF RecomputedStoreTips, InTree
  <2>2. CASE t = r /\ s \notin world.stores[e]
    <3>1. RecomputedStoreTips(entries, t, s)' = RecomputedStoreTips(entries, t, s)
      <4>1. {x \in InTree(held, t) : s \in world.stores[x]}
              = {x \in InTree(entries, t) : s \in world.stores[x]}
        BY <1>2, <2>2 DEF InTree
      <4>2. InTree(entries, t)' = InTree(held, t)
        BY <1>1, <1>2 DEF InTree
      <4>. QED
        BY <1>1, <4>1, <4>2, Zenon DEF RecomputedStoreTips
    <3>. QED
      BY <1>2, <1>4, <1>7, <2>2, <3>1 DEF CacheGood
  <2>3. CASE t # r
    <3>1. InTree(entries, t)' = InTree(entries, t)
      <4>1. InTree(held, t) = InTree(entries, t)
        BY <1>1, <2>3, OtherTreesUntouched
      <4>. QED
        BY <1>1, <1>2, <4>1 DEF InTree
    <3>2. RecomputedStoreTips(entries, t, s)' = RecomputedStoreTips(entries, t, s)
      BY <1>1, <3>1 DEF RecomputedStoreTips
    <3>. QED
      BY <1>2, <1>5, <1>7, <2>3, <3>2 DEF CacheGood
  <2>. QED
    BY <2>1, <2>2, <2>3
<1>. QED
  BY <1>6, <1>7 DEF CacheGood

(* An answer that fills a cache is the answer the entries determine:        *)
(* traversal::snapshot and store_snapshot.                                  *)
LEMMA AnswersExact ==
    ASSUME CacheInv, NEW t \in Tree
    PROVE  /\ SnapshotResult(t) = RecomputedTreeTips(entries, t)
           /\ SnapshotResult(t) \in SUBSET ID
           /\ \A s \in Store :
                /\ StoreSnapshotResult(t, s) = RecomputedStoreTips(entries, t, s)
                /\ StoreSnapshotResult(t, s) \in SUBSET ID
<1>1. /\ world \in Worlds /\ entries \subseteq ID
      /\ CacheGood(entries, treeTips, storeTips)
  BY DEF CacheInv, TypeOK
<1>2. \A e \in InTree(entries, t) : world.root[e] = e => e = t
  BY <1>1, WorldsWellFormed DEF InTree
<1>3. SnapshotResult(t) = RecomputedTreeTips(entries, t)
  BY <1>1, <1>2 DEF SnapshotResult, RecomputedTreeTips, Tips, CacheGood
<1>4. RecomputedTreeTips(entries, t) \in SUBSET ID
  BY <1>1 DEF RecomputedTreeTips, Tips, InTree
<1>5. \A s \in Store :
        StoreSnapshotResult(t, s) = RecomputedStoreTips(entries, t, s)
  BY <1>1 DEF StoreSnapshotResult, CacheGood
<1>6. \A s \in Store : RecomputedStoreTips(entries, t, s) \in SUBSET ID
  BY <1>1 DEF RecomputedStoreTips, InTree
<1>. QED
  BY <1>3, <1>4, <1>5, <1>6

(* Filling one cache with the right answer keeps all caches exact. *)
LEMMA FillKeepsCaches ==
    ASSUME CacheInv, NEW t \in Tree, UNCHANGED <<world, entries>>,
           NEW tt, tt = RecomputedTreeTips(entries, t),
           \/ treeTips' = [treeTips EXCEPT ![t] = tt]
           \/ treeTips' = treeTips,
           \/ storeTips' = storeTips
           \/ \E s \in Store : storeTips' = [storeTips EXCEPT ![t][s] =
                                   RecomputedStoreTips(entries, t, s)]
    PROVE  CacheGood(entries, treeTips, storeTips)'
<1>1. /\ CacheGood(entries, treeTips, storeTips)
      /\ treeTips \in [Tree -> CachedTips]
      /\ storeTips \in [Tree -> [Store -> CachedTips]]
      /\ entries \subseteq ID
  BY DEF CacheInv, TypeOK
<1>2. \A u \in Tree : /\ InTree(entries, u)' = InTree(entries, u)
                      /\ RecomputedTreeTips(entries, u)' = RecomputedTreeTips(entries, u)
                      /\ \A s \in Store : RecomputedStoreTips(entries, u, s)'
                                        = RecomputedStoreTips(entries, u, s)
  BY DEF InTree, RecomputedTreeTips, RecomputedStoreTips, Tips
<1>3. tt # NoCache
  <2>1. tt \in SUBSET ID
    BY <1>1 DEF RecomputedTreeTips, Tips, InTree
  <2>. QED
    BY <2>1, NoCacheIsNoSet
<1>4. \A u \in Tree : /\ InTree(entries, u) # {} => treeTips'[u] # NoCache
                      /\ treeTips'[u] # NoCache
                           => treeTips'[u] = RecomputedTreeTips(entries, u)
  BY <1>1, <1>3 DEF CacheGood
<1>5. \A u \in Tree, s \in Store : storeTips'[u][s] # NoCache
         => storeTips'[u][s] = RecomputedStoreTips(entries, u, s)
  BY <1>1 DEF CacheGood
<1>. QED
  BY <1>2, <1>4, <1>5 DEF CacheGood

(* Queries change nothing but the caches, and keep them exact. *)
LEMMA ReadKeepsCacheInv ==
    ASSUME CacheInv, Read
    PROVE  CacheInv'
<1>1. /\ UNCHANGED <<world, entries, verification_status, saving>>
      /\ TypeOK
  BY DEF Read, Snapshot, StoreSnapshot, StoreSnapshotAt, CacheInv
<1>2. PICK t \in Tree :
        \/ Snapshot(t)
        \/ \E s \in Store : StoreSnapshot(t, s)
        \/ \E s \in Store, main \in SUBSET ID : StoreSnapshotAt(t, s, main)
  BY DEF Read
<1>3. \/ treeTips' = [treeTips EXCEPT ![t] = RecomputedTreeTips(entries, t)]
      \/ treeTips' = treeTips
  <2>1. CASE Snapshot(t)
    BY <2>1, AnswersExact, Zenon DEF Snapshot
  <2>2. CASE \E s \in Store : StoreSnapshot(t, s)
    <3>1. treeTips[t] = NoCache => RecomputedTreeTips(entries, t) = {}
      BY DEF CacheInv, CacheGood, RecomputedTreeTips, Tips
    <3>2. treeTips[t] # NoCache => treeTips' = treeTips
      BY <1>1, <2>2 DEF StoreSnapshot, TypeOK
    <3>. QED
      BY <2>2, <3>1, <3>2, Zenon DEF StoreSnapshot
  <2>3. CASE \E s \in Store, main \in SUBSET ID : StoreSnapshotAt(t, s, main)
    BY <2>3, AnswersExact, Zenon DEF StoreSnapshotAt
  <2>. QED
    BY <1>2, <2>1, <2>2, <2>3
<1>4. \/ storeTips' = storeTips
      \/ \E s \in Store : storeTips' = [storeTips EXCEPT ![t][s] =
                              RecomputedStoreTips(entries, t, s)]
  BY <1>2, AnswersExact DEF Snapshot, StoreSnapshot, StoreSnapshotAt
<1>5. CacheGood(entries, treeTips, storeTips)'
  BY <1>1, <1>3, <1>4, FillKeepsCaches
<1>6. TypeOK'
  <2>1. /\ RecomputedTreeTips(entries, t) \in SUBSET ID
        /\ \A s \in Store : RecomputedStoreTips(entries, t, s) \in SUBSET ID
    BY AnswersExact
  <2>2. treeTips' \in [Tree -> CachedTips]
    BY <1>1, <1>3, <2>1 DEF TypeOK, CachedTips
  <2>3. storeTips' \in [Tree -> [Store -> CachedTips]]
    <3>1. storeTips \in [Tree -> [Store -> CachedTips]]
      BY <1>1 DEF TypeOK
    <3>2. ASSUME NEW s \in Store, NEW ids \in CachedTips
          PROVE  [storeTips EXCEPT ![t][s] = ids] \in [Tree -> [Store -> CachedTips]]
      BY <3>1
    <3>3. \A s \in Store : RecomputedStoreTips(entries, t, s) \in CachedTips
      BY <2>1 DEF CachedTips
    <3>. QED
      BY <1>4, <3>1, <3>2, <3>3
  <2>. QED
    BY <1>1, <2>2, <2>3 DEF TypeOK, saving, Image
<1>7. \A i : ImageGood(i) => ImageGood(i)'
  BY <1>1 DEF ImageGood, CacheGood, StatusGood, RecomputedTreeTips,
              RecomputedStoreTips, Tips, InTree, saving
<1>. QED
  BY <1>1, <1>5, <1>6, <1>7 DEF CacheInv, StatusGood, saving

(* A new, empty database has empty caches, which are exact. *)
LEMMA EmptyImageGood ==
    /\ EmptyImage \in Image
    /\ EmptyImage.entries = {}
    /\ CacheGood(EmptyImage.entries, EmptyImage.treeTips, EmptyImage.storeTips)
    /\ StatusGood(EmptyImage.entries, EmptyImage.status)
BY DEF EmptyImage, Image, CachedTips, Statuses, CacheGood, StatusGood, InTree

(* Writes keep the invariant; images on their way to disk are not touched. *)
LEMMA WriteKeepsCacheInv ==
    ASSUME CacheInv, Write
    PROVE  CacheInv'
<1>1. ASSUME NEW e \in ID, Put(e)
      PROVE  CacheInv'
  <2>1. CacheGood(entries, treeTips, storeTips)'
    BY <1>1, PutKeepsCaches
  <2>2. /\ TypeOK /\ UNCHANGED <<world, saving>>
        /\ entries' = entries \cup {e}
        /\ verification_status' = [verification_status EXCEPT ![e] = "Unverified"]
    BY <1>1 DEF CacheInv, Put
  <2>3. /\ treeTips' \in [Tree -> CachedTips]
        /\ storeTips' \in [Tree -> [Store -> CachedTips]]
    <3>1. \A t, s : /\ RecomputedTreeTips(entries \cup {e}, t) \in CachedTips
                    /\ RecomputedStoreTips(entries \cup {e}, t, s) \in CachedTips
      BY <2>2 DEF TypeOK, CachedTips, RecomputedTreeTips, RecomputedStoreTips,
                  Tips, InTree
    <3>2. treeTips' \in [Tree -> CachedTips]
      BY <1>1, <2>2, <3>1, Zenon DEF Put, TypeOK
    <3>3. PICK r \in Tree : r = world.root[e]
      BY <2>2, WorldsWellFormed DEF TypeOK
    <3>4. storeTips \in [Tree -> [Store -> CachedTips]]
      BY <2>2 DEF TypeOK
    <3>5. PICK g : /\ storeTips' = [storeTips EXCEPT ![r] = g]
                   /\ g = [s \in Store |->
                            IF s \in world.stores[e]
                            THEN RecomputedStoreTips(entries \cup {e}, r, s)
                            ELSE storeTips[r][s]]
      BY <1>1, <3>3, Zenon DEF Put
    <3>6. \A s \in Store : storeTips[r][s] \in CachedTips
      BY <3>4
    <3>7. g \in [Store -> CachedTips]
      BY <3>1, <3>5, <3>6
    <3>. QED
      BY <3>2, <3>4, <3>5, <3>7, Zenon
  <2>4. TypeOK'
    BY <2>2, <2>3 DEF TypeOK, saving, Statuses, Image
  <2>5. StatusGood(entries, verification_status)'
    BY <2>2 DEF StatusGood, CacheInv, TypeOK
  <2>6. \A i : ImageGood(i) => ImageGood(i)'
    BY <2>2 DEF ImageGood, CacheGood, StatusGood, RecomputedTreeTips,
                RecomputedStoreTips, Tips, InTree, saving
  <2>. QED
    BY <2>1, <2>2, <2>4, <2>5, <2>6 DEF CacheInv, saving
<1>2. ASSUME NEW e \in ID, PutAgain(e)
      PROVE  CacheInv'
  BY <1>2 DEF PutAgain, vars, memory, saving, CacheInv, TypeOK, CacheGood,
              StatusGood, ImageGood, RecomputedTreeTips, RecomputedStoreTips,
              Tips, InTree, Image
<1>3. ASSUME NEW e \in ID, NEW status \in StatusWrites,
             UpdateVerificationStatus(e, status)
      PROVE  CacheInv'
  <2>1. /\ TypeOK /\ UNCHANGED <<world, entries, treeTips, storeTips, saving>>
        /\ verification_status' = [verification_status EXCEPT ![e] = status]
        /\ verification_status[e] # "Absent"
    BY <1>3 DEF CacheInv, UpdateVerificationStatus
  <2>2. status \in Statuses /\ status # "Absent"
    BY StatusWritesAreStatuses DEF Statuses, S!Statuses
  <2>3. TypeOK'
    BY <2>1, <2>2 DEF TypeOK, saving, Image
  <2>4. StatusGood(entries, verification_status)'
    BY <2>1, <2>2 DEF StatusGood, CacheInv, TypeOK
  <2>5. CacheGood(entries, treeTips, storeTips)'
    BY <2>1 DEF CacheInv, CacheGood, RecomputedTreeTips, RecomputedStoreTips,
                Tips, InTree
  <2>6. \A i : ImageGood(i) => ImageGood(i)'
    BY <2>1 DEF ImageGood, CacheGood, StatusGood, RecomputedTreeTips,
                RecomputedStoreTips, Tips, InTree, saving
  <2>. QED
    BY <2>1, <2>3, <2>4, <2>5, <2>6 DEF CacheInv, saving
<1>. QED
  BY <1>1, <1>2, <1>3 DEF Write

(* Flushes and restarts keep the invariant: the image is a copy of an exact *)
(* state, no two threads write at once, and the file is such an image.      *)
LEMMA PersistKeepsCacheInv ==
    ASSUME CacheInv, Persist
    PROVE  CacheInv'
<1>1. TypeOK
  BY DEF CacheInv
<1>2. ASSUME NEW f \in Flushers, FlushLock(f)
      PROVE  CacheInv'
  <2>1. /\ UNCHANGED <<world, memory, image, file, durable>>
        /\ saver = {} /\ saver' = {f}
        /\ flusher' = [flusher EXCEPT ![f] = "locked"]
    BY <1>2 DEF FlushLock
  <2>2. \A g \in Flushers : flusher[g] = "idle"
    BY <2>1 DEF CacheInv
  <2>3. TypeOK'
    BY <1>1, <2>1 DEF TypeOK, memory, Image
  <2>. QED
    BY <1>1, <2>1, <2>2, <2>3
    DEF CacheInv, TypeOK, CacheGood, StatusGood, ImageGood, memory,
        RecomputedTreeTips, RecomputedStoreTips, Tips, InTree
<1>3. ASSUME NEW f \in Flushers, FlushClone(f)
      PROVE  CacheInv'
  <2>. DEFINE clone == [entries |-> entries, status |-> verification_status,
                        treeTips |-> treeTips, storeTips |-> storeTips]
  <2>1. /\ UNCHANGED <<world, memory, saver, file, durable>>
        /\ flusher' = [flusher EXCEPT ![f] = "cloned"]
        /\ image' = [image EXCEPT ![f] = clone]
        /\ flusher[f] = "locked"
    BY <1>3 DEF FlushClone
  <2>2. durable \subseteq entries
    BY DEF CacheInv, ImageGood
  <2>3. clone \in Image
    BY <1>1 DEF TypeOK, Image
  <2>4. TypeOK'
    BY <1>1, <2>1, <2>3 DEF TypeOK, memory, Image
  <2>5. /\ CacheGood(entries, treeTips, storeTips)'
        /\ StatusGood(entries, verification_status)'
    BY <2>1 DEF CacheInv, CacheGood, StatusGood, memory, RecomputedTreeTips,
                RecomputedStoreTips, Tips, InTree
  <2>6. \A i : ImageGood(i) => ImageGood(i)'
    BY <2>1 DEF ImageGood, CacheGood, StatusGood, memory, RecomputedTreeTips,
                RecomputedStoreTips, Tips, InTree
  <2>7. ImageGood(clone)
    BY <2>2, <2>3 DEF ImageGood, CacheInv
  <2>. QED
    BY <1>1, <2>1, <2>4, <2>5, <2>6, <2>7 DEF CacheInv, TypeOK
<1>4. ASSUME NEW f \in Flushers, FlushRename(f) \/ FlushFail(f)
      PROVE  CacheInv'
  <2>1. /\ UNCHANGED <<world, memory>>
        /\ flusher[f] = "cloned" /\ ImageGood(image[f])
        /\ flusher' = [flusher EXCEPT ![f] = "idle"]
        /\ image' = [image EXCEPT ![f] = EmptyImage]
        /\ saver' = saver \ {f}
    BY <1>4 DEF FlushRename, FlushFail, CacheInv
  <2>2. \A g \in Flushers : flusher'[g] = "idle"
    BY <1>1, <2>1, Zenon DEF CacheInv, TypeOK
  <2>3. /\ CacheGood(entries, treeTips, storeTips)'
        /\ StatusGood(entries, verification_status)'
    BY <2>1 DEF CacheInv, CacheGood, StatusGood, memory, RecomputedTreeTips,
                RecomputedStoreTips, Tips, InTree
  <2>4. CASE FlushRename(f)
    <3>1. file' = image[f] /\ durable' = durable \cup image[f].entries
      BY <2>4 DEF FlushRename
    <3>2. durable' = image[f].entries
      BY <2>1, <3>1 DEF ImageGood
    <3>3. ImageGood(file)'
      BY <2>1, <3>1, <3>2
      DEF ImageGood, CacheGood, StatusGood, memory, RecomputedTreeTips,
          RecomputedStoreTips, Tips, InTree, Image
    <3>4. TypeOK'
      BY <1>1, <2>1, <3>1, <3>2, EmptyImageGood
      DEF TypeOK, memory, ImageGood, Image
    <3>. QED
      BY <2>2, <2>3, <3>3, <3>4 DEF CacheInv
  <2>5. CASE FlushFail(f)
    <3>1. UNCHANGED <<file, durable>>
      BY <2>5 DEF FlushFail
    <3>2. TypeOK'
      BY <1>1, <2>1, <3>1, EmptyImageGood DEF TypeOK, memory, Image
    <3>3. \A i : ImageGood(i) => ImageGood(i)'
      BY <2>1, <3>1 DEF ImageGood, CacheGood, StatusGood, memory, Image,
                RecomputedTreeTips, RecomputedStoreTips, Tips, InTree
    <3>. QED
      BY <2>2, <2>3, <3>1, <3>2, <3>3 DEF CacheInv
  <2>. QED
    BY <1>4, <2>4, <2>5
<1>5. CASE Restart
  <2>1. /\ entries' = file.entries /\ verification_status' = file.status
        /\ treeTips' = file.treeTips /\ storeTips' = file.storeTips
        /\ flusher' = [f \in Flushers |-> "idle"]
        /\ image' = [f \in Flushers |-> EmptyImage]
        /\ saver' = {} /\ UNCHANGED <<world, file, durable>>
    BY <1>5 DEF Restart
  <2>2. ImageGood(file)
    BY DEF CacheInv
  <2>4. TypeOK'
    BY <1>1, <2>1, <2>2, EmptyImageGood DEF TypeOK, ImageGood, Image
  <2>5. ImageGood(file)'
    <3>1. CacheGood(file.entries, file.treeTips, file.storeTips)'
      BY <2>1, <2>2 DEF ImageGood, CacheGood,
                RecomputedTreeTips, RecomputedStoreTips, Tips, InTree
    <3>2. /\ file' \in Image
          /\ StatusGood(file.entries, file.status)'
          /\ durable' \subseteq file'.entries
          /\ file'.entries \subseteq entries'
      BY <2>1, <2>2 DEF ImageGood, StatusGood, Image
    <3>. QED
      BY <3>1, <3>2 DEF ImageGood
  <2>6. /\ CacheGood(entries, treeTips, storeTips)'
        /\ StatusGood(entries, verification_status)'
    BY <2>1, <2>2 DEF ImageGood, CacheGood, StatusGood,
                RecomputedTreeTips, RecomputedStoreTips, Tips, InTree
  <2>. QED
    BY <2>1, <2>4, <2>5, <2>6 DEF CacheInv
<1>. QED
  BY <1>2, <1>3, <1>4, <1>5 DEF Persist

(* The inductive invariant holds initially and is kept by every step. *)
THEOREM CacheInvariant == Spec => []CacheInv
<1>1. Init => CacheInv
  <2>. SUFFICES ASSUME Init PROVE CacheInv
    OBVIOUS
  <2>1. TypeOK
    BY EmptyImageGood DEF Init, TypeOK, Image
  <2>2. ImageGood(file)
    BY EmptyImageGood DEF Init, ImageGood
  <2>. QED
    BY <2>1, <2>2, EmptyImageGood DEF Init, CacheInv
<1>2. CacheInv /\ [Next]_vars => CacheInv'
  <2>1. ASSUME CacheInv, UNCHANGED vars
        PROVE  CacheInv'
    <3>1. UNCHANGED <<world, entries, verification_status, treeTips, storeTips,
                      flusher, image, saver, file, durable>>
      BY <2>1 DEF vars, memory, saving
    <3>2. TypeOK'
      BY <2>1, <3>1 DEF CacheInv, TypeOK
    <3>3. CacheGood(entries, treeTips, storeTips)'
      BY <2>1, <3>1 DEF CacheInv, CacheGood, RecomputedTreeTips,
                RecomputedStoreTips, Tips, InTree
    <3>4. StatusGood(entries, verification_status)'
      BY <2>1, <3>1 DEF CacheInv, StatusGood
    <3>5. \A i : ImageGood(i) => ImageGood(i)'
      BY <3>1 DEF ImageGood, CacheGood, StatusGood, RecomputedTreeTips,
                RecomputedStoreTips, Tips, InTree, Image
    <3>. QED
      BY <2>1, <3>1, <3>2, <3>3, <3>4, <3>5 DEF CacheInv
  <2>. QED
    BY <2>1, WriteKeepsCacheInv, ReadKeepsCacheInv, PersistKeepsCacheInv DEF Next
<1>. QED
  BY <1>1, <1>2, PTL DEF Spec

(* Every cached set of tips is exactly the set of tips of the entries held, *)
(* whatever the arrival order, the queries and the restarts (storage::put,  *)
(* traversal::snapshot, store_snapshot, persistence::try_load_from_file).   *)
THEOREM TipsAlwaysExact == Spec => [](TypeOK /\ TipsExact)
<1>1. CacheInv => TypeOK /\ TipsExact
  <2>. SUFFICES ASSUME CacheInv PROVE TypeOK /\ TipsExact
    OBVIOUS
  <2>1. TypeOK
    BY DEF CacheInv
  <2>2. ASSUME NEW t \in Tree
        PROVE  RecomputedTreeTips(entries, t) = S!TreeTips(t)
    BY DEF RecomputedTreeTips, S!TreeTips, S!InTree, InTree, S!Tips, Tips
  <2>3. ASSUME NEW t \in Tree, NEW s \in Store
        PROVE  RecomputedStoreTips(entries, t, s) = S!StoreTips(t, s)
    BY <2>1, Zenon DEF RecomputedStoreTips, S!StoreTips, S!InStore, S!InTree, InTree,
           S!Tips, S!StoreParents, TypeOK
  <2>. QED
    BY <2>1, <2>2, <2>3 DEF CacheInv, CacheGood, TipsExact
<1>. QED
  BY <1>1, CacheInvariant, PTL

(* The backend implements Storage: puts of held entries and queries are     *)
(* invisible, and no restart loses what a flush that returned Ok covered.   *)
THEOREM BackendImplementsStorage == Spec => ImplementsStorage
<1>1. Init => S!Init
  BY DEF Init, S!Init, EmptyImage
<1>2. CacheInv /\ [Next]_vars => [S!Next]_S!vars
  <2>. SUFFICES ASSUME CacheInv, [Next]_vars
                PROVE  S!Next \/ UNCHANGED S!vars
    OBVIOUS
  <2>1. CASE UNCHANGED vars
    BY <2>1 DEF vars, memory, saving, S!vars
  <2>2. ASSUME NEW e \in ID, Put(e)
        PROVE  S!Next
    BY <2>2, Zenon DEF Put, saving, S!Next, S!Put
  <2>3. ASSUME NEW e \in ID, PutAgain(e)
        PROVE  UNCHANGED S!vars
    BY <2>3 DEF PutAgain, vars, memory, saving, S!vars
  <2>4. ASSUME NEW e \in ID, NEW status \in StatusWrites,
               UpdateVerificationStatus(e, status)
        PROVE  S!Next
    <3>1. status \in S!Statuses
      BY StatusWritesAreStatuses
    <3>2. e \in entries
      BY <2>4 DEF UpdateVerificationStatus, CacheInv, StatusGood
    <3>3. S!UpdateVerificationStatus(e, status)
      BY <2>4, <3>2 DEF UpdateVerificationStatus, S!UpdateVerificationStatus,
                        saving
    <3>. QED
      BY <3>1, <3>3 DEF S!Next
  <2>5. CASE Read
    BY <2>5 DEF Read, Snapshot, StoreSnapshot, StoreSnapshotAt, saving, S!vars
  <2>6. ASSUME NEW f \in Flushers,
               FlushLock(f) \/ FlushClone(f) \/ FlushFail(f)
        PROVE  UNCHANGED S!vars
    BY <2>6 DEF FlushLock, FlushClone, FlushFail, memory, S!vars
  <2>7. ASSUME NEW f \in Flushers, FlushRename(f)
        PROVE  S!Next
    <3>1. image[f].entries \in SUBSET entries
      BY <2>7 DEF FlushRename, CacheInv, ImageGood
    <3>2. S!Flush(image[f].entries)
      BY <2>7 DEF FlushRename, S!Flush, memory
    <3>. QED
      BY <3>1, <3>2 DEF S!Next
  <2>8. CASE Restart
    <3>1. /\ entries' = file.entries /\ verification_status' = file.status
          /\ UNCHANGED <<world, durable>>
      BY <2>8 DEF Restart
    <3>2. ImageGood(file)
      BY DEF CacheInv
    <3>3. \A e \in ID : verification_status'[e] \in
              (IF e \in entries' THEN S!Statuses ELSE {"Absent"})
      BY <3>1, <3>2 DEF ImageGood, StatusGood, Image, Statuses, S!Statuses
    <3>4. S!Restart
      BY <3>1, <3>2, <3>3 DEF S!Restart, ImageGood
    <3>. QED
      BY <3>4 DEF S!Next
  <2>. QED
    BY <2>1, <2>2, <2>3, <2>4, <2>5, <2>6, <2>7, <2>8 DEF Next, Write, Persist
<1>. QED
  BY <1>1, <1>2, CacheInvariant, PTL DEF Spec, S!Spec, ImplementsStorage
=============================================================================
