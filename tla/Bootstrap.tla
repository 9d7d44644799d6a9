----------------------------- MODULE Bootstrap -----------------------------
(***************************************************************************)
(* A device asks for a database it does not have yet: sync/bootstrap.rs,   *)
(* sync/bootstrap_request_manager.rs and the side that serves it,          *)
(* sync/handler.rs.                                                        *)
(*                                                                         *)
(* The server holds one database, whose auth settings list keys with a     *)
(* permission, here its level: 0 none, 1 Read, 2 Write, 3 Admin.  The      *)
(* settings are never empty (Database::create lists the creating key), so  *)
(* the database asks for authentication unless it has a wildcard grant.    *)
(* Bootstrap requests wait in the server's sync tree for an administrator. *)
(* The administrators work beside each other: each reads the request in    *)
(* one transaction, for an approval commits the key in the database, and   *)
(* then commits the new status; the server may stop in between.            *)
(*                                                                         *)
(* A request proves the key it is signed with; RequestAuth has the         *)
(* conditions on its freshness.                                            *)
(***************************************************************************)
EXTENDS SyncTree

CONSTANTS
    UserKey,       \* the key a user of the client asks to have listed
    DeviceKey,     \* the key of the client itself
    Admins,        \* keys that are administrators of the database at first
    Level,         \* the levels a bootstrap asks for
    MaxRequests,   \* bound on stored bootstrap requests
    MaxChanges,    \* bound on settings and preferences changed by the server's users
    MaxCrashes     \* bound on restarts of the server

VARIABLES
    level,      \* the level the database's settings give to each key
    wild,       \* the level of the wildcard grant
    enabled,    \* the combined sync settings of the server's users for the database
    log,        \* the server's sync tree: its bootstrap requests
    task,       \* of every administrator: the decision being carried out
    changes, crashes,
    have,       \* the client holds the database
    answer,     \* the last answer of the server, and who signed what it answers
    revoked     \* keys whose listing an administrator took back

vars == <<level, wild, enabled, log, task, changes, crashes, have, answer, revoked>>

Keys == {UserKey, DeviceKey} \cup Admins
None == {}
Idle == [stage |-> "idle"]

(* A SyncTree request: the key asked for, whether it is named, the level    *)
(* asked for, the key that signed it, and whether it carries tips.          *)
Requests == [key : {None} \cup {{k} : k \in Keys}, named : BOOLEAN,
             asked : {None} \cup {{l} : l \in Level}, signer : Keys, tips : BOOLEAN]

Init ==
    /\ level = [k \in Keys |-> IF k \in Admins THEN 3 ELSE 0]
    /\ wild = 0
    /\ enabled = TRUE
    /\ log = <<>>
    /\ task = [a \in Admins |-> Idle]
    /\ changes = 0
    /\ crashes = 0
    /\ have = FALSE
    /\ answer = [reply |-> "none", signer |-> DeviceKey]
    /\ revoked = {}

(***************************************************************************)
(* The requests in the sync tree                                           *)
(***************************************************************************)

RequestIds == {path[2] : path \in UNION {DOMAIN log[i].writes : i \in DOMAIN log}}

(* get_request *)
GetRequest(seen, n) ==
    ValueAt(log, seen, <<"request", n>>, [key |-> UserKey, asked |-> 0, status |-> "none"])
Now(n) == GetRequest(Committed(log), n)

(* update_status rewrites the request read in the same transaction. *)
WithStatus(seen, n, status) ==
    [path \in {<<"request", n>>} |-> [GetRequest(seen, n) EXCEPT !.status = status]]

(***************************************************************************)
(* The serving side                                                        *)
(***************************************************************************)

(* find_all_sigkeys_for_pubkey: the key's own listing or the wildcard. *)
Highest(k) == Max({level[k], wild})

(* check_if_database_has_auth *)
HasAuth == wild = 0

(* check_proven_auth_permission *)
ProvenAccess(req, k, asked) == (~HasAuth \/ req.signer = k) /\ Highest(k) >= asked

(* handle_bootstrap_request: its gates, in order. *)
BootstrapReply(req) ==
    IF ~enabled THEN "not found"
    ELSE IF HasAuth /\ req.key = None THEN "authentication required"
    ELSE IF req.key # None /\ req.named /\ req.asked # None
    THEN IF \A k \in req.key, l \in req.asked : ProvenAccess(req, k, l)
         THEN "served" ELSE "pending"
    ELSE IF req.key # None /\ req.named
    THEN IF HasAuth /\ req.key # {req.signer} THEN "not proven"
         ELSE IF \A k \in req.key : Highest(k) = 0 THEN "authentication required"
         ELSE "served"
    ELSE IF HasAuth THEN "authentication required"
    ELSE "served"

(* handle_incremental_sync, with authorize_read. *)
IncrementalReply(req) ==
    IF ~enabled THEN "not found"
    ELSE IF HasAuth /\ Highest(req.signer) = 0 THEN "permission denied"
    ELSE "served"

(* handle_sync_tree: no tips is a bootstrap. *)
Reply(req) == IF req.tips THEN IncrementalReply(req) ELSE BootstrapReply(req)

(* store_bootstrap_request: a new row, also when one is pending already. *)
StoreBootstrapRequest(req) ==
    LET n == Cardinality(RequestIds) + 1
    IN  /\ n <= MaxRequests
        /\ \E k \in req.key, l \in req.asked :
              log' = WithEntry(log, Len(log) + 1,
                        [path \in {<<"request", n>>} |->
                            [key |-> k, asked |-> l, status |-> "Pending"]])

(* The server answers; a client that is served stores the entries. *)
Handle(req) ==
    /\ answer' = [reply |-> Reply(req), signer |-> req.signer]
    /\ IF Reply(req) = "pending" THEN StoreBootstrapRequest(req) ELSE UNCHANGED log
    /\ have' = (have \/ Reply(req) = "served")
    /\ UNCHANGED <<level, wild, enabled, task, changes, crashes, revoked>>

(***************************************************************************)
(* The client.  Its tips are empty until it holds the database.            *)
(***************************************************************************)

(* sync_tree_with_peer_as: no key is asked for; the device's key signs it,  *)
(* or the one given.                                                        *)
NormalSync(signer) == [key |-> None, named |-> FALSE, asked |-> None,
                       signer |-> signer, tips |-> have]
SyncWithPeer == \E s \in {UserKey, DeviceKey} : Handle(NormalSync(s))

(* sync_tree_with_peer_auth: the key asked for signs it. *)
AuthSync(named, asked) == [key |-> {UserKey}, named |-> named, asked |-> asked,
                           signer |-> UserKey, tips |-> have]
SyncWithPeerAuth ==
    \E named \in BOOLEAN, asked \in {None} \cup {{l} : l \in Level} :
        Handle(AuthSync(named, asked))

(***************************************************************************)
(* The administrators                                                      *)
(***************************************************************************)

(* approve and reject both read the request, check that it is pending and   *)
(* that the key they were given is an administrator's.                      *)
Decide(a, decision) ==
    /\ task[a] = Idle
    /\ \E n \in RequestIds :
          /\ Now(n).status = "Pending"
          /\ Max({level[a], wild}) = 3
          /\ task' = [task EXCEPT ![a] = [stage |-> decision, request |-> n,
                                          seen |-> Committed(log)]]
    /\ UNCHANGED <<level, wild, enabled, log, changes, crashes, have, answer, revoked>>

(* approve: the commit in the database validates the key once more. *)
GrantKey(a) ==
    /\ task[a].stage = "approve"
    /\ IF level[a] = 3
       THEN LET r == GetRequest(task[a].seen, task[a].request)
            IN  /\ level' = [level EXCEPT ![r.key] = r.asked]
                /\ task' = [task EXCEPT ![a].stage = "granted"]
       ELSE /\ task' = [task EXCEPT ![a] = Idle]
            /\ UNCHANGED level
    /\ UNCHANGED <<wild, enabled, log, changes, crashes, have, answer, revoked>>

(* A faulty variant of StatusStage: the status is committed first. *)
StatusBeforeGrant(a) == IF task[a].stage = "approve" THEN "Approved"
                        ELSE IF task[a].stage = "reject" THEN "Rejected" ELSE "none"

(* Which status the administrator is about to commit. *)
StatusStage(a) == IF task[a].stage = "granted" THEN "Approved"
                  ELSE IF task[a].stage = "reject" THEN "Rejected" ELSE "none"

(* The commit of the status, the last step of both. *)
CommitStatus(a) ==
    /\ StatusStage(a) # "none"
    /\ \E place \in Places(log, task[a].seen) :
          log' = WithEntry(log, place,
                           WithStatus(task[a].seen, task[a].request, StatusStage(a)))
    /\ task' = [task EXCEPT ![a] = Idle]
    /\ UNCHANGED <<level, wild, enabled, changes, crashes, have, answer, revoked>>

(* An administrator revokes a key or changes the wildcard; a user of the    *)
(* server turns the sync of the database on or off.                         *)
Revoke(k) ==
    /\ changes < MaxChanges
    /\ level[k] > 0
    /\ \E a \in Admins : level[a] = 3
    /\ level' = [level EXCEPT ![k] = 0]
    /\ revoked' = revoked \cup {k}
    /\ changes' = changes + 1
    /\ UNCHANGED <<wild, enabled, log, task, crashes, have, answer>>

SetGlobal(l) ==
    /\ changes < MaxChanges
    /\ \E a \in Admins : level[a] = 3
    /\ wild' = l
    /\ changes' = changes + 1
    /\ UNCHANGED <<level, enabled, log, task, crashes, have, answer, revoked>>

SetSyncEnabled ==
    /\ changes < MaxChanges
    /\ enabled' = ~enabled
    /\ changes' = changes + 1
    /\ UNCHANGED <<level, wild, log, task, crashes, have, answer, revoked>>

(* The server stops: what its administrators were doing is forgotten. *)
Crash ==
    /\ crashes < MaxCrashes
    /\ \E a \in Admins : task[a] # Idle
    /\ crashes' = crashes + 1
    /\ task' = [a \in Admins |-> Idle]
    /\ UNCHANGED <<level, wild, enabled, log, changes, have, answer, revoked>>

Next ==
    \/ SyncWithPeer
    \/ SyncWithPeerAuth
    \/ \E a \in Admins : Decide(a, "approve") \/ Decide(a, "reject")
    \/ \E a \in Admins : GrantKey(a) \/ CommitStatus(a)
    \/ \E k \in Keys : Revoke(k)
    \/ \E l \in {0, 1} : SetGlobal(l)
    \/ SetSyncEnabled
    \/ Crash

Spec == Init /\ [][Next]_vars

(***************************************************************************)
(* Properties                                                              *)
(***************************************************************************)

TypeOK ==
    /\ level \in [Keys -> 0..3]
    /\ wild \in 0..3
    /\ Cardinality(RequestIds) <= MaxRequests
    /\ \A n \in RequestIds : Now(n).status \in {"Pending", "Approved", "Rejected"}
    /\ \A a \in Admins : task[a] = Idle \/ task[a].seen \subseteq Committed(log)

(* An approval can be relied on: once a request is recorded as approved,    *)
(* its key is listed, with a level some request asked for, unless it was    *)
(* revoked; also when the server stopped or two administrators decided the  *)
(* same request (bootstrap.rs:305-330 commits the key before the status).   *)
ApprovedIsListed ==
    \A n \in RequestIds : Now(n).status = "Approved" /\ Now(n).key \notin revoked =>
        level[Now(n).key] \in {Now(m).asked : m \in {m \in RequestIds : Now(m).key = Now(n).key}}
=============================================================================
