---------------------------- MODULE PeerRegistry ----------------------------
(***************************************************************************)
(* The peers of an instance and the databases it syncs with them:          *)
(* sync/peer_manager.rs and sync/peer.rs over the sync tree, and the       *)
(* callers that register peers on their own, the handler of a handshake or *)
(* of a sync request (sync/handler.rs) and the background task that has    *)
(* connected to a peer (sync/background/conn.rs).                          *)
(*                                                                         *)
(* A call is one transaction: it reads what was committed when it began    *)
(* and writes one entry, beside other calls that do the same.  A list (the *)
(* addresses of a peer, the peers of a tree) is one value that is read,    *)
(* changed and written as a whole.                                         *)
(***************************************************************************)
EXTENDS SyncTree

CONSTANTS
    Peer, Tree, Address,
    Caller,      \* concurrent callers
    MaxCommits   \* bound on the entries of the sync tree

VARIABLES
    log,   \* the sync tree
    call   \* of every caller: the call it makes, with the entries it sees

vars == <<log, call>>

NoCall == [op |-> "none"]

(* The calls.  `arg` is the tree, address, status or connection state given. *)
Calls ==
    [op : {"register_peer", "remove_peer", "connect_to_peer"}, peer : Peer, arg : {"none"}]
    \cup [op : {"update_peer_status"}, peer : Peer, arg : {"active", "inactive", "blocked"}]
    \cup [op : {"update_peer_connection_state"}, peer : Peer, arg : {"connected", "disconnected"}]
    \cup [op : {"add_tree_sync", "remove_tree_sync", "handle_sync_tree"}, peer : Peer, arg : Tree]
    \cup [op : {"add_address", "remove_address", "handle_handshake"}, peer : Peer, arg : Address]
    \cup [op : {"register_sync_peer"}, peer : Peer, arg : Tree, address : Address]

TypeOK ==
    /\ Len(log) <= MaxCommits
    /\ \A c \in Caller : call[c] = NoCall \/ call[c].seen \subseteq Committed(log)

Init ==
    /\ log = <<>>
    /\ call = [c \in Caller |-> NoCall]

(***************************************************************************)
(* What a transaction reads                                                *)
(***************************************************************************)

Status(seen, p) == ValueAt(log, seen, <<"status", p>>, "none")
Connection(seen, p) == ValueAt(log, seen, <<"connection", p>>, "disconnected")
Addresses(seen, p) == ValueAt(log, seen, <<"addresses", p>>, {})
TreePeers(seen, t) == ValueAt(log, seen, <<"peers", t>>, {})

(* contains_path of the peer's record: a removed peer keeps its record. *)
Registered(seen, p) == Status(seen, p) # "none"

(* get_peer_info: None for an unknown peer and for a blocked one. *)
HasPeerInfo(seen, p) == Status(seen, p) \notin {"none", "blocked"}

(***************************************************************************)
(* What the operations write: a function from paths to values, or Failed   *)
(* when they return an error and the transaction is dropped                *)
(***************************************************************************)

Failed == [path \in {<<"error">>} |-> "error"]
Nothing == [path \in {} |-> "none"]
Write(path, value) == [p \in {path} |-> value]
Both(w, v) == [p \in DOMAIN w \cup DOMAIN v |-> IF p \in DOMAIN v THEN v[p] ELSE w[p]]
Ok(w) == <<"error">> \notin DOMAIN w

(* A faulty variant of RegisterPeer: it asks get_peer_info. *)
RegisterPeerByInfo(seen, p) ==
    IF HasPeerInfo(seen, p) THEN Failed ELSE Write(<<"status", p>>, "active")

(* register_peer: PeerAlreadyExists, also for a peer that is blocked. *)
RegisterPeer(seen, p) ==
    IF Registered(seen, p) THEN Failed ELSE Write(<<"status", p>>, "active")

UpdatePeerStatus(seen, p, status) ==
    IF ~Registered(seen, p) THEN Failed ELSE Write(<<"status", p>>, status)

(* remove_peer: the peer is blocked, and taken off every list it is on. *)
RemovePeer(seen, p) ==
    LET listed == {t \in Tree : p \in TreePeers(seen, t)}
        lists == [path \in {<<"peers", t>> : t \in listed} |-> TreePeers(seen, path[2]) \ {p}]
    IN  IF Registered(seen, p) THEN Both(lists, Write(<<"status", p>>, "blocked")) ELSE lists

(* add_tree_sync *)
AddTreeSync(seen, p, t) ==
    IF ~Registered(seen, p) THEN Failed
    ELSE IF p \in TreePeers(seen, t) THEN Nothing
    ELSE Write(<<"peers", t>>, TreePeers(seen, t) \cup {p})

(* remove_tree_sync *)
RemoveTreeSync(seen, p, t) ==
    IF p \in TreePeers(seen, t) THEN Write(<<"peers", t>>, TreePeers(seen, t) \ {p})
    ELSE Nothing

(* add_address, remove_address *)
AddAddress(seen, p, a) ==
    IF ~Registered(seen, p) THEN Failed
    ELSE IF a \in Addresses(seen, p) THEN Nothing
    ELSE Write(<<"addresses", p>>, Addresses(seen, p) \cup {a})
RemoveAddress(seen, p, a) ==
    IF ~Registered(seen, p) THEN Failed
    ELSE IF a \in Addresses(seen, p) THEN Write(<<"addresses", p>>, Addresses(seen, p) \ {a})
    ELSE Nothing

(* update_peer_info writes the whole record, an empty list of addresses     *)
(* excepted.                                                                *)
UpdatePeerInfo(seen, p, connection) ==
    LET fields == Both(Write(<<"status", p>>, Status(seen, p)),
                       Write(<<"connection", p>>, connection))
    IN  IF Addresses(seen, p) = {} THEN fields
        ELSE Both(fields, Write(<<"addresses", p>>, Addresses(seen, p)))

(* update_peer_connection_state: the record is read, changed and rewritten. *)
UpdatePeerConnectionState(seen, p, connection) ==
    IF ~HasPeerInfo(seen, p) THEN Failed ELSE UpdatePeerInfo(seen, p, connection)

(* register_incoming_peer: a peer that exists only gets the address. *)
RegisterIncomingPeer(seen, p, a) ==
    IF Ok(RegisterPeer(seen, p))
    THEN Both(RegisterPeer(seen, p), Write(<<"addresses", p>>, Addresses(seen, p) \cup {a}))
    ELSE AddAddress(seen, p, a)

(* register_sync_peer: a blocked peer has no info, but is registered.       *)
RegisterSyncPeer(seen, p, t, a) ==
    IF ~HasPeerInfo(seen, p)
    THEN IF Ok(RegisterPeer(seen, p))
         THEN Both(RegisterPeer(seen, p),
                   Both(Write(<<"addresses", p>>, Addresses(seen, p) \cup {a}),
                        Write(<<"peers", t>>, TreePeers(seen, t) \cup {p})))
         ELSE Failed
    ELSE Both(AddAddress(seen, p, a), AddTreeSync(seen, p, t))

(* What a call of Sync on a peer writes, *)
PeerWrites(c) ==
    CASE c.op \in {"register_peer", "connect_to_peer"} -> RegisterPeer(c.seen, c.peer)
      [] c.op = "remove_peer" -> RemovePeer(c.seen, c.peer)
      [] c.op = "update_peer_status" -> UpdatePeerStatus(c.seen, c.peer, c.arg)
      [] c.op = "update_peer_connection_state" ->
            UpdatePeerConnectionState(c.seen, c.peer, c.arg)

(* on a peer and a tree, *)
TreeWrites(c) ==
    IF c.op = "add_tree_sync" THEN AddTreeSync(c.seen, c.peer, c.arg)
    ELSE RemoveTreeSync(c.seen, c.peer, c.arg)

(* and on a peer's addresses. *)
AddressWrites(c) ==
    IF c.op = "add_address" THEN AddAddress(c.seen, c.peer, c.arg)
    ELSE RemoveAddress(c.seen, c.peer, c.arg)

(* track_tree_sync_relationship: the handler notes who asked for a tree. *)
TrackTreeSyncRelationship(seen, p, t) == AddTreeSync(seen, p, t)

Writes(c) ==
    CASE c.op \in {"add_tree_sync", "remove_tree_sync"} -> TreeWrites(c)
      [] c.op \in {"add_address", "remove_address"} -> AddressWrites(c)
      [] c.op = "handle_sync_tree" -> TrackTreeSyncRelationship(c.seen, c.peer, c.arg)
      [] c.op = "handle_handshake" -> RegisterIncomingPeer(c.seen, c.peer, c.arg)
      [] c.op = "register_sync_peer" -> RegisterSyncPeer(c.seen, c.peer, c.arg, c.address)
      [] OTHER -> PeerWrites(c)

(***************************************************************************)
(* Behaviour                                                               *)
(***************************************************************************)

(* The call opens its transaction. *)
Begin(c) ==
    /\ call[c] = NoCall
    /\ Len(log) < MaxCommits
    /\ \E k \in Calls :
          call' = [call EXCEPT ![c] = [seen |-> Committed(log)] @@ k]
    /\ UNCHANGED log

(* It commits its entry. *)
Commit(c) ==
    /\ call[c] # NoCall
    /\ Len(log) < MaxCommits
    /\ Ok(Writes(call[c]))
    /\ \E place \in Places(log, call[c].seen) :
          log' = WithEntry(log, place, Writes(call[c]))
    /\ call' = [call EXCEPT ![c] = NoCall]

(* It returns an error, or ignores the one of register_peer: nothing is     *)
(* committed.                                                               *)
Fail(c) ==
    /\ call[c] # NoCall
    /\ ~Ok(Writes(call[c]))
    /\ call' = [call EXCEPT ![c] = NoCall]
    /\ UNCHANGED log

Next == \E c \in Caller : Begin(c) \/ Commit(c) \/ Fail(c)

Spec == Init /\ [][Next]_vars

(***************************************************************************)
(* Properties                                                              *)
(***************************************************************************)

(* A block is final for whoever could have known of it.  A step that leaves *)
(* a blocked peer unblocked belongs to update_peer_status, or to a call     *)
(* that began before the block was committed: a handshake, a registration   *)
(* or a change of the connection made afterwards does not let it in again.  *)
BlockOutlivesLaterCalls ==
    [][\A p \in Peer :
         Status(Committed(log), p) = "blocked" /\ Status(Committed(log), p)' # "blocked"
         => \E c \in Caller :
              /\ call[c] # NoCall /\ call'[c] = NoCall
              /\ call[c].peer = p
              /\ call[c].op = "update_peer_status" \/ Status(call[c].seen, p) # "blocked"]_vars
=============================================================================
