------------------------------- MODULE MCData -------------------------------
(***************************************************************************)
(* The backends and the stores on small instances, explored side by side.  *)
(* They share no state: `part` names the one whose behaviour this is, and  *)
(* the others stay in an initial state.  The constants and variables this  *)
(* module inherits from InMemory are those of "flush": two trees, status   *)
(* writes and two flushing threads.                                        *)
(***************************************************************************)
EXTENDS MCInMemory

CONSTANTS Putters, Readers, Idle, Txn, UserStore

(* Three entries of one tree, in every graph, two or more of them in the    *)
(* store, and the root of another tree.                                     *)
SqlWorlds ==
    {[parents |-> [w.parents EXCEPT ![4] = {}],
      root |-> [w.root EXCEPT ![4] = 4],
      stores |-> w.stores,
      storeParents |-> w.storeParents] :
        w \in {w \in MCWorlds :
                 /\ w.stores[4] = {}
                 /\ Cardinality({e \in 1..3 : w.stores[e] # {}}) > 1}}

VARIABLES
    part,
    tWorld, tEntries, tStatus, tTreeTips, tStoreTips,
    tFlusher, tImage, tSaver, tFile, tDurable,
    sWorld, rows, rowStatus, tips, tx, query, reply,
    lru, bytes, puts,
    strategy, links, past, height, present, memo, answer, reads,
    log, builder, pending,
    type, committed, staged, written,
    items, used, asked,
    rCommitted, rCommits, rStaged, rAsked,
    pEntries, store,
    backend, local, cache, edited, commits

(* No flush and no restart, but every order in which the entries of every   *)
(* graph can arrive.                                                        *)
T == INSTANCE InMemory WITH
        ID <- 1..4, Tree <- {1}, Worlds <- MCWorlds, StatusWrites <- {},
        Flushers <- {}, world <- tWorld, entries <- tEntries,
        verification_status <- tStatus, treeTips <- tTreeTips,
        storeTips <- tStoreTips, flusher <- tFlusher, image <- tImage,
        saver <- tSaver, file <- tFile, durable <- tDurable
Q == INSTANCE SqlBackend WITH
        ID <- 1..4, Tree <- {1, 4}, Worlds <- SqlWorlds, Kind <- "Postgres",
        world <- sWorld
L == INSTANCE CrdtCache WITH
        Scope <- {"shared", "alice"}, Slot <- {"e1", "e2"},
        Size <- {0, 1, 2, 4}, Capacity <- 3, Bound <- 4
G == INSTANCE StoreState WITH
        MaxEntries <- 4, MaxClock <- 1, MaxReads <- 2, DepthLimit <- 1,
        UnverifiedReads <- FALSE
X == INSTANCE Transaction WITH MaxEntries <- 4
D == INSTANCE DocStore WITH
        Rows <- {"a"}, Fields <- {"b"}, Leaves <- {1, 2}, MaxCommits <- 2
I == INSTANCE DocList WITH Copies <- {"own", "other"}, MaxItems <- 3
R == INSTANCE Registry WITH
        Types <- {1, 2}, Strategies <- {1, 2}, MaxCommits <- 3,
        committed <- rCommitted, commits <- rCommits, staged <- rStaged,
        asked <- rAsked
P == INSTANCE PasswordStore WITH
        Password <- {"p", "q"}, MaxEntries <- 3, entries <- pEntries
Y == INSTANCE YDoc WITH Handles <- {"h1", "h2"}, Op <- {1, 2, 3}

Parts == {"flush", "tips", "sql", "cache", "state", "txn", "doc", "list",
          "registry", "password", "ydoc"}

(* Only the part at work starts from each of its initial states. *)
DataInit ==
    /\ part \in Parts
    /\ Init
    /\ T!Init /\ (part # "tips" => tWorld = CHOOSE w \in MCWorlds : TRUE)
    /\ Q!Init /\ (part # "sql" => sWorld = CHOOSE w \in SqlWorlds : TRUE)
    /\ L!Init
    /\ G!Init /\ (part # "state" => strategy = "Incremental")
    /\ X!Init
    /\ D!Init /\ (part # "doc" => type = "table")
    /\ I!Init /\ R!Init /\ P!Init /\ Y!Init

tipsVars == <<tWorld, tEntries, tStatus, tTreeTips, tStoreTips, tFlusher, tImage,
              tSaver, tFile, tDurable>>
sqlVars == <<sWorld, rows, rowStatus, tips, tx, query, reply>>
cacheVars == <<lru, bytes, puts>>
stateVars == <<strategy, links, past, height, present, memo, answer, reads>>
txnVars == <<log, builder, pending>>
docVars == <<type, committed, staged, written>>
listVars == <<items, used, asked>>
registryVars == <<rCommitted, rCommits, rStaged, rAsked>>
passwordVars == <<pEntries, store>>
ydocVars == <<backend, local, cache, edited, commits>>

DataNext ==
    /\ part' = part
    /\ IF part = "flush" THEN Next ELSE UNCHANGED vars
    /\ IF part = "tips" THEN T!Next ELSE UNCHANGED tipsVars
    /\ IF part = "sql" THEN Q!Next ELSE UNCHANGED sqlVars
    /\ IF part = "cache" THEN L!Next ELSE UNCHANGED cacheVars
    /\ IF part = "state" THEN G!Next ELSE UNCHANGED stateVars
    /\ IF part = "txn" THEN X!Next ELSE UNCHANGED txnVars
    /\ IF part = "doc" THEN D!Next ELSE UNCHANGED docVars
    /\ IF part = "list" THEN I!Next ELSE UNCHANGED listVars
    /\ IF part = "registry" THEN R!Next ELSE UNCHANGED registryVars
    /\ IF part = "password" THEN P!Next ELSE UNCHANGED passwordVars
    /\ IF part = "ydoc" THEN Y!Next ELSE UNCHANGED ydocVars

dataVars ==
    <<part, vars, tipsVars, sqlVars, cacheVars, stateVars, txnVars, docVars,
      listVars, registryVars, passwordVars, ydocVars>>

DataSpec == DataInit /\ [][DataNext]_dataVars

(***************************************************************************)
(* The properties, each of the part that its module describes.  Of the     *)
(* in-memory backend, "flush" is checked by ImplementsStorage itself.      *)
(***************************************************************************)

(* store_snapshot_at of the in-memory backend, by any of its paths, answers *)
(* with the tips of the store below the given entries, in every order of    *)
(* arrival and after a restart that loaded the cached tips from the file.   *)
StoreSnapshotAtExactInAnyOrder ==
    /\ part = "flush" => StoreSnapshotAtExact
    /\ part = "tips" => T!StoreSnapshotAtExact

(* The tips table of the SQL backends is exact whatever order puts commit   *)
(* in and whichever of them are rolled back.                                *)
TipsTableExact == part = "sql" => Q!TipsTableExact

(* store_snapshot_at of the SQL backends misses no entry of the store that  *)
(* its argument built on, even when puts commit between its two queries.    *)
SnapshotAtMissesNothing == part = "sql" => Q!SnapshotAtMissesNothing

(* The CRDT cache is over its capacity only with a single item.             *)
OverCapOnlyAlone == part = "cache" => L!OverCapOnlyAlone

(* A read of a store through merge bases, paths and cached states is the    *)
(* replay of its whole history in order of height.                          *)
ReadIsReplay == part = "state" => G!ReadIsReplay

(* The in-memory and the SQL backends find the same merge base.             *)
BackendsAgreeOnBase == part = "state" => G!BackendsAgreeOnBase

(* The store parents of a committed entry lose no part of the store below   *)
(* the parents of its transaction.                                          *)
StoreHistoryIsWhole == part = "txn" => X!StoreHistoryIsWhole

(* A transaction reads the same committed state however often it asks.      *)
RepeatableReads == part = "txn" => X!RepeatableReads

(* A staged write is what every getter shows next, over committed history.  *)
LastWriteShows == part = "doc" => D!LastWriteShows

(* An insertion between plain positions lands at the index asked for.       *)
PlainInsertLands == part = "list" => I!PlainInsertLands

(* Two copies of a list that merge each other agree.                        *)
MutualMergeAgrees == part = "list" => I!MutualMergeAgrees

(* set_subtree_settings leaves the type and the configuration of a store.   *)
ConfigOutlivesSettings == R!ConfigOutlivesSettings

(* An open password store decrypts everything committed to it.              *)
OpenStoreDecryptsAll == part = "password" => P!OpenStoreDecryptsAll

(* The edits made through all handles of a transaction accumulate.          *)
EditsAccumulate == part = "ydoc" => Y!EditsAccumulate
=============================================================================
