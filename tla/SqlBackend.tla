----------------------------- MODULE SqlBackend -----------------------------
(***************************************************************************)
(* The SQL backends (SQLite, PostgreSQL): entries in tables, with a table  *)
(* of tips that every put updates in the same SQL transaction.  The rows   *)
(* of tree_parents, subtrees and store_parents are written together with   *)
(* the row of their entry and never change, so the set of committed rows   *)
(* of `entries` stands for all four tables.  A put is several statements:  *)
(* each sees what was committed before it.                                 *)
(***************************************************************************)
EXTENDS EntryDag

CONSTANTS
    ID, Tree, Store, Worlds,
    Kind,       \* DbKind: "Sqlite" or "Postgres"
    StatusWrites,  \* the statuses that callers write
    Putters,    \* tasks that call put
    Readers,    \* tasks that call store_snapshot_at
    Idle        \* no entry, no question, no answer

VARIABLES
    world,      \* the entry graph of this behaviour, never changed
    rows,       \* committed rows of `entries`
    rowStatus,  \* their verification_status column
    tips,       \* committed rows <<entry, tree, store>> of `tips`
    tx,         \* the open SQL transaction of each putter
    query,      \* the store_snapshot_at call of each reader
    reply       \* what its last call returned

vars == <<world, rows, rowStatus, tips, tx, query, reply>>

Storage == INSTANCE Storage WITH entries <- rows,
                                 verification_status <- rowStatus,
                                 durable <- rows

Init ==
    /\ world \in Worlds
    /\ rows = {}
    /\ rowStatus = [e \in ID |-> "Absent"]
    /\ tips = {}
    /\ tx = [p \in Putters |-> Idle]
    /\ query = [r \in Readers |-> Idle]
    /\ reply = [r \in Readers |-> Idle]

(***************************************************************************)
(* put                                                                     *)
(***************************************************************************)

open == {p \in Putters : tx[p] # Idle}

(* The tree lock of the Instance, held around every put: puts to one tree   *)
(* do not overlap.  BEGIN IMMEDIATE makes SQLite admit one writer at all.   *)
MayBegin(e) ==
    \A p \in open : Kind # "Sqlite" /\ world.root[tx[p].entry] # world.root[e]

(* BEGIN, and the look for an existing row: when there is one the put       *)
(* returns and its transaction is dropped.                                  *)
Begin(p, e) ==
    /\ tx[p] = Idle
    /\ MayBegin(e)
    /\ e \notin rows
    /\ tx' = [tx EXCEPT ![p] = [entry |-> e, insert |-> {}, delete |-> {},
                                step |-> "rows"]]
    /\ UNCHANGED <<world, rows, rowStatus, tips, query, reply>>

(* Children that arrived first keep an entry from becoming a tip. *)
TreeChildren(e) == {c \in rows : e \in world.parents[c]}
StoreChildren(e, s) == {c \in rows : s \in world.stores[c]
                                     /\ e \in world.storeParents[c][s]}

(* A faulty variant of TipsToInsert: arrival in order is taken for granted. *)
TipsAlwaysInserted(e) ==
    {<<e, world.root[e], "">>} \cup {<<e, world.root[e], s>> : s \in world.stores[e]}

(* update_tips_for_entry: the rows added for e, and those removed for its   *)
(* parents, at the level of the tree (store_name '') and of each store.     *)
TipsToInsert(e) ==
    {<<e, world.root[e], "">> : x \in {0} \cap {Cardinality(TreeChildren(e))}}
    \cup {<<e, world.root[e], s>> :
            s \in {s \in world.stores[e] : StoreChildren(e, s) = {}}}

(* A faulty variant of TipsToDelete: the statement that removes a parent    *)
(* does not name the store.                                                 *)
TipsOfParentsDeleted(e) ==
    {<<q, world.root[e], s>> : q \in world.parents[e], s \in Store \cup {""}}

TipsToDelete(e) ==
    {<<q, world.root[e], "">> : q \in world.parents[e]}
    \cup UNION {{<<q, world.root[e], s>> : q \in world.storeParents[e][s]} :
                  s \in world.stores[e]}

UpdateTips(p) ==
    /\ tx[p] # Idle /\ tx[p].step = "rows"
    /\ LET e == tx[p].entry
       IN  tx' = [tx EXCEPT ![p] = [entry |-> e, insert |-> TipsToInsert(e),
                                    delete |-> TipsToDelete(e) \cap tips,
                                    step |-> "tips"]]
    /\ UNCHANGED <<world, rows, rowStatus, tips, query, reply>>

Commit(p) ==
    /\ tx[p] # Idle /\ tx[p].step = "tips"
    /\ rows' = rows \cup {tx[p].entry}
    /\ rowStatus' = [rowStatus EXCEPT ![tx[p].entry] = "Unverified"]
    /\ tips' = (tips \ tx[p].delete) \cup tx[p].insert
    /\ tx' = [tx EXCEPT ![p] = Idle]
    /\ UNCHANGED <<world, query, reply>>

(* A statement fails, or the process stops: the transaction is rolled back. *)
Rollback(p) ==
    /\ tx[p] # Idle
    /\ tx' = [tx EXCEPT ![p] = Idle]
    /\ UNCHANGED <<world, rows, rowStatus, tips, query, reply>>

(* One UPDATE; no row affected is the error EntryNotFound. *)
UpdateVerificationStatus(e, status) ==
    /\ e \in rows
    /\ rowStatus' = [rowStatus EXCEPT ![e] = status]
    /\ UNCHANGED <<world, rows, tips, tx, query, reply>>

(***************************************************************************)
(* Queries                                                                 *)
(***************************************************************************)

SnapshotResult(t) == {e \in rows : <<e, t, "">> \in tips}
StoreSnapshotResult(t, s) == {e \in rows : <<e, t, s>> \in tips}

(* The recursive query of store_snapshot_at. *)
ScopedStoreTips(s, main) ==
    LET inStore == {e \in Reach(world.parents, rows, main) :
                      s \in world.stores[e]}
    IN  inStore \ UNION {world.storeParents[e][s] : e \in inStore}

(* store_snapshot_at, first query: the tips of the tree.  When they are     *)
(* `main`, a second query will read the tips of the store.                  *)
AskSnapshotAt(r, t, s, main) ==
    /\ query[r] = Idle
    /\ main # {}
    /\ IF main = SnapshotResult(t)
       THEN /\ query' = [query EXCEPT ![r] = [tree |-> t, store |-> s,
                                              main |-> main, since |-> rows]]
            /\ reply' = [reply EXCEPT ![r] = Idle]
       ELSE /\ reply' = [reply EXCEPT ![r] =
                           [tree |-> t, store |-> s, main |-> main,
                            since |-> rows,
                            tips |-> ScopedStoreTips(s, main)]]
            /\ UNCHANGED query
    /\ UNCHANGED <<world, rows, rowStatus, tips, tx>>

ReadStoreTips(r) ==
    /\ query[r] # Idle
    /\ reply' = [reply EXCEPT ![r] =
                   [tree |-> query[r].tree, store |-> query[r].store,
                    main |-> query[r].main, since |-> query[r].since,
                    tips |-> StoreSnapshotResult(query[r].tree, query[r].store)]]
    /\ query' = [query EXCEPT ![r] = Idle]
    /\ UNCHANGED <<world, rows, rowStatus, tips, tx>>

Next ==
    \/ \E p \in Putters, e \in ID : Begin(p, e)
    \/ \E p \in Putters : UpdateTips(p) \/ Commit(p) \/ Rollback(p)
    \/ \E e \in ID, status \in StatusWrites :
          UpdateVerificationStatus(e, status)
    \/ \E r \in Readers, t \in Tree, s \in Store :
          \E main \in SUBSET Storage!InTree(t) : AskSnapshotAt(r, t, s, main)
    \/ \E r \in Readers : ReadStoreTips(r)

Spec == Init /\ [][Next]_vars

(***************************************************************************)
(* Properties                                                              *)
(***************************************************************************)

(* The incrementally maintained table of tips is the set of tips of the     *)
(* committed entries, of every tree and every store, whatever the order of  *)
(* arrival and whichever transactions were rolled back.                     *)
TipsTableExact ==
    \A t \in Tree :
        /\ SnapshotResult(t) = Storage!TreeTips(t)
        /\ \A s \in Store : StoreSnapshotResult(t, s) = Storage!StoreTips(t, s)

Behind(s, S) == Reach([e \in ID |-> world.storeParents[e][s]], rows, S)

(* A store snapshot taken at `main` never misses an entry of the store that *)
(* `main` built on when it was asked for, even when puts commit between its *)
(* two queries.                                                             *)
SnapshotAtMissesNothing ==
    \A r \in Readers : reply[r] # Idle =>
        LET q == reply[r]
        IN  {e \in Reach(world.parents, q.since, q.main) :
               q.store \in world.stores[e]} \subseteq Behind(q.store, q.tips)
=============================================================================
