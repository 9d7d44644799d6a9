------------------------------ MODULE KeyRing ------------------------------
(***************************************************************************)
(* A user's keys and tracked databases: user/session/mod.rs,               *)
(* user/key_manager.rs and the first-login bootstrap of                    *)
(* user/system_databases.rs.  They are kept twice: in the tables `keys`    *)
(* and `databases` of the user's own database, and in the UserKeyManager   *)
(* of every session, filled at login and kept up to date by the session's  *)
(* own calls only.  A session is used by one call at a time (&mut self);   *)
(* several sessions of the user run beside each other.                     *)
(*                                                                         *)
(* A row of `keys` has a generated primary key, so one user key may have   *)
(* several rows, and a row is replaced as a whole when a database is       *)
(* mapped.  Of a mapping only its presence is kept, not the SigKey in it,  *)
(* and of a tracked database only its key, not its sync settings (these    *)
(* are in UserSync).                                                       *)
(***************************************************************************)
EXTENDS SyncTree

CONSTANTS
    Session,    \* sessions of the user
    Root,       \* the root key, in the credentials of the account
    NewKey,     \* keys that add_private_key may generate
    Own,        \* databases the user may create
    Shared,     \* databases that may arrive from a peer
    MaxCalls    \* bound on the calls made

VARIABLES
    log,         \* the user's database
    manager,     \* of every session: NoManager, or the databases mapped per key held
    task,        \* of every session: the call that runs
    minted,      \* the keys generated
    authorized,  \* of every database on this instance: the keys that have access
    calls,       \* the calls made so far
    forked       \* some transaction has committed beside another one

vars == <<log, manager, task, minted, authorized, calls, forked>>

Db == Own \cup Shared
Keys == {Root} \cup NewKey
Rows == Keys \X Session
NoManager == <<>>
Idle == [at |-> "idle"]
NotTracked == "none"

TypeOK ==
    /\ calls \in 0..MaxCalls
    /\ \A s \in Session :
          manager[s] # NoManager => /\ DOMAIN manager[s] \subseteq Keys
                                    /\ \A k \in DOMAIN manager[s] : manager[s][k] \subseteq Db
    /\ \A s \in Session : task[s].at \in {"idle", "loaded", "genesis", "commit"}
    /\ minted \subseteq NewKey
    /\ \A d \in DOMAIN authorized : d \in Db /\ authorized[d] \subseteq Keys
    /\ forked \in BOOLEAN

Init ==
    /\ log = <<>>
    /\ manager = [s \in Session |-> NoManager]
    /\ task = [s \in Session |-> Idle]
    /\ minted = {}
    /\ authorized = <<>>
    /\ calls = 0
    /\ forked = FALSE

(***************************************************************************)
(* The two tables                                                          *)
(***************************************************************************)

(* No set of databases. *)
NoRow == {"none"}

(* A row of `keys`: the databases mapped for the key. *)
Row(seen, r) == ValueAt(log, seen, <<"keys", r>>, NoRow)

(* keys_table.search(|uk| uk.key_id == k), in the order of a HashMap. *)
RowsOf(seen, k) == {r \in {k} \X Session : Row(seen, r) # NoRow}

(* databases_table.get(d) *)
Tracked(seen, d) == ValueAt(log, seen, <<"databases", d>>, NotTracked)

HasAccess(k, d) == d \in DOMAIN authorized /\ k \in authorized[d]

(* The session makes its next call. *)
Call(s) ==
    /\ manager[s] # NoManager
    /\ task[s] = Idle
    /\ calls < MaxCalls
    /\ calls' = calls + 1

(* UserKeyManager::add_key: the key's metadata is replaced. *)
AddKey(s, k, dbs) == [manager EXCEPT ![s] = (k :> dbs) @@ manager[s]]

(***************************************************************************)
(* Login                                                                   *)
(***************************************************************************)

(* build_user_session: every row is loaded, a later row of the same key     *)
(* replacing an earlier one; the root key is added when it has no row.      *)
LoadKeys(s) ==
    /\ manager[s] = NoManager
    /\ LET seen == Committed(log)
           stored == {k \in Keys : RowsOf(seen, k) # {}}
       IN  /\ \E last \in [stored -> Rows] :
                 /\ \A k \in stored : last[k] \in RowsOf(seen, k)
                 /\ manager' = [manager EXCEPT ![s] =
                       [k \in stored \cup {Root} |->
                          IF k \in stored THEN Row(seen, last[k]) ELSE {}]]
           /\ task' = [task EXCEPT ![s] = [at |-> "loaded", root |-> Root \in stored]]
    /\ UNCHANGED <<log, minted, authorized, calls, forked>>

(* bootstrap_user_tree_if_needed: one transaction stores the missing root   *)
(* row and the grant for the device key.                                    *)
Bootstrap(s) ==
    /\ task[s].at = "loaded"
    /\ LET seen == Committed(log)
           row == IF task[s].root THEN {} ELSE {<<"keys", <<Root, s>>>>}
           grant == IF ValueAt(log, seen, <<"device">>, {}) = {} THEN {<<"device">>} ELSE {}
           writes == [p \in row \cup grant |-> IF p = <<"device">> THEN {"read"} ELSE {}]
       IN  \/ /\ row \cup grant = {}
              /\ log' = log
           \/ /\ row \cup grant # {}
              /\ log' = WithEntry(log, Len(log) + 1, writes)
    /\ task' = [task EXCEPT ![s] = Idle]
    /\ UNCHANGED <<manager, minted, authorized, calls, forked>>

(* The bootstrap is best effort: the login goes on when it fails. *)
BootstrapSkipped(s) ==
    /\ task[s].at = "loaded"
    /\ task' = [task EXCEPT ![s] = Idle]
    /\ UNCHANGED <<log, manager, minted, authorized, calls, forked>>

(* The session is dropped, or its process ends, in the middle of a call. *)
Drop(s) ==
    /\ manager[s] # NoManager
    /\ manager' = [manager EXCEPT ![s] = NoManager]
    /\ task' = [task EXCEPT ![s] = Idle]
    /\ UNCHANGED <<log, minted, authorized, calls, forked>>

(***************************************************************************)
(* Transactions of a session: begun with what is committed, and committed  *)
(* or failed in a later step.  `add` is what the session's manager learns  *)
(* only once the commit succeeded.                                         *)
(***************************************************************************)

Begin(s, writes, add) ==
    task' = [task EXCEPT ![s] =
               [at |-> "commit", seen |-> Committed(log), writes |-> writes, add |-> add]]

Nothing == <<>>

Commit(s) ==
    /\ task[s].at = "commit"
    /\ \E place \in Places(log, task[s].seen) : log' = WithEntry(log, place, task[s].writes)
    /\ forked' = (forked \/ ~Serial(log, task[s].seen))
    /\ manager' = [manager EXCEPT ![s] = task[s].add @@ @]
    /\ task' = [task EXCEPT ![s] = Idle]
    /\ UNCHANGED <<minted, authorized, calls>>

(* The backend refuses the entry: the call returns the error. *)
CommitFails(s) ==
    /\ task[s].at = "commit"
    /\ task' = [task EXCEPT ![s] = Idle]
    /\ UNCHANGED <<log, manager, minted, authorized, calls, forked>>

(* A faulty variant of MappedRow: the metadata comes from the manager. *)
MappedFromManager(s, r, d) ==
    {d} \cup IF r[1] \in DOMAIN manager[s] THEN manager[s][r[1]] ELSE {}

(* The row with one more database: the metadata is read from the table. *)
MappedRow(s, r, d) == Row(Committed(log), r) \cup {d}

(***************************************************************************)
(* The calls                                                               *)
(***************************************************************************)

(* add_private_key *)
AddPrivateKey(s, k) ==
    /\ Call(s)
    /\ k \notin minted
    /\ minted' = minted \cup {k}
    /\ Begin(s, <<"keys", <<k, s>>>> :> {}, k :> {})
    /\ UNCHANGED <<log, manager, authorized, forked>>

(* map_key: the manager learns the mapping before the commit. *)
MapKey(s, k, d) ==
    /\ Call(s)
    /\ \E r \in RowsOf(Committed(log), k) :
          /\ manager' = AddKey(s, k, MappedRow(s, r, d))
          /\ Begin(s, <<"keys", r>> :> MappedRow(s, r, d), Nothing)
    /\ UNCHANGED <<log, minted, authorized, forked>>

(* request_database_access, when the peer leaves the request pending: the   *)
(* mapping is recorded provisionally.  When the peer grants access, the     *)
(* database arrives and is tracked (Arrive, TrackDatabase).                 *)
RequestPending(s, k, d) ==
    /\ k \in DOMAIN manager[s]
    /\ d \notin DOMAIN authorized
    /\ MapKey(s, k, d)

(* create_database_with_init: the genesis entry is committed first. *)
CreateGenesis(s, k, d) ==
    /\ Call(s)
    /\ k \in DOMAIN manager[s]
    /\ d \notin DOMAIN authorized
    /\ authorized' = (d :> {k}) @@ authorized
    /\ task' = [task EXCEPT ![s] = [at |-> "genesis", key |-> k, db |-> d]]
    /\ UNCHANGED <<log, manager, minted, forked>>

(* ... and the mapping and the tracking in a transaction of their own. *)
CreateTracking(s) ==
    /\ task[s].at = "genesis"
    /\ LET k == task[s].key
           d == task[s].db
       IN  \E r \in RowsOf(Committed(log), k) :
              Begin(s, (<<"keys", r>> :> MappedRow(s, r, d))
                       @@ (<<"databases", d>> :> k),
                    k :> MappedRow(s, r, d))
    /\ UNCHANGED <<log, manager, minted, authorized, calls, forked>>

(* The key has no row (its bootstrap was skipped): KeyNotFound. *)
CreateUntracked(s) ==
    /\ task[s].at = "genesis"
    /\ RowsOf(Committed(log), task[s].key) = {}
    /\ task' = [task EXCEPT ![s] = Idle]
    /\ UNCHANGED <<log, manager, minted, authorized, calls, forked>>

(* validate_and_map_key_in_txn: the key is held and find_sigkeys finds a    *)
(* SigKey for it in the database's own settings.                            *)
MayUse(s, k, d) == k \in DOMAIN manager[s] /\ HasAccess(k, d)

(* track_database: a new database, or another key for it, is validated and  *)
(* mapped; the row of `databases` is replaced.                              *)
TrackDatabase(s, k, d) ==
    /\ Call(s)
    /\ LET seen == Committed(log)
           row == <<"databases", d>> :> k
       IN  \/ /\ Tracked(seen, d) = k
              /\ Begin(s, row, Nothing)
              /\ manager' = manager
           \/ /\ Tracked(seen, d) # k
              /\ MayUse(s, k, d)
              /\ \E r \in RowsOf(seen, k) :
                    /\ manager' = AddKey(s, k, MappedRow(s, r, d))
                    /\ Begin(s, (<<"keys", r>> :> MappedRow(s, r, d)) @@ row, Nothing)
    /\ UNCHANGED <<log, minted, authorized, forked>>

(* enable_sync, disable_sync: the row is read and written back with the     *)
(* other setting, the key in it as it was.                                  *)
SetSyncEnabled(s, d) ==
    /\ Call(s)
    /\ LET tracked == Tracked(Committed(log), d)
       IN  /\ tracked # NotTracked
           /\ Begin(s, <<"databases", d>> :> tracked, Nothing)
    /\ UNCHANGED <<log, manager, minted, authorized, forked>>

(* untrack_database: the key mappings stay. *)
UntrackDatabase(s, d) ==
    /\ Call(s)
    /\ Tracked(Committed(log), d) # NotTracked
    /\ Begin(s, <<"databases", d>> :> NotTracked, Nothing)
    /\ UNCHANGED <<log, manager, minted, authorized, forked>>

(* Another peer's database arrives, with access for a key of this user. *)
Arrive(k, d) ==
    /\ d \notin DOMAIN authorized
    /\ authorized' = (d :> {k}) @@ authorized
    /\ UNCHANGED <<log, manager, task, minted, calls, forked>>

Next ==
    \/ \E s \in Session :
          \/ LoadKeys(s) \/ Bootstrap(s) \/ BootstrapSkipped(s) \/ Drop(s)
          \/ Commit(s) \/ CommitFails(s)
          \/ CreateTracking(s) \/ CreateUntracked(s)
          \/ \E k \in NewKey : AddPrivateKey(s, k)
          \/ \E k \in Keys, d \in Db :
                MapKey(s, k, d) \/ TrackDatabase(s, k, d)
          \/ \E k \in Keys, d \in Shared : RequestPending(s, k, d)
          \/ \E k \in Keys, d \in Own : CreateGenesis(s, k, d)
          \/ \E d \in Db : SetSyncEnabled(s, d) \/ UntrackDatabase(s, d)
    \/ \E k \in minted \cup {Root}, d \in Shared : Arrive(k, d)

Spec == Init /\ [][Next]_vars

(***************************************************************************)
(* Properties                                                              *)
(***************************************************************************)

(* Every tracked database can be used: the key it is tracked with has       *)
(* access by the database's own settings, also when it was mapped           *)
(* provisionally while a request was pending (validate_and_map_key_in_txn), *)
(* and, while the calls of the user's sessions commit one after the other,  *)
(* that key is mapped to it, whichever session tracked it and whatever the  *)
(* others knew: no session undoes a mapping it never heard of               *)
(* (map_key_in_txn, create_database_with_init).                             *)
TrackedIsUsable ==
    LET all == Committed(log)
    IN  \A d \in Db : Tracked(all, d) # NotTracked =>
          /\ HasAccess(Tracked(all, d), d)
          /\ forked \/ \E r \in RowsOf(all, Tracked(all, d)) : d \in Row(all, r)
=============================================================================
