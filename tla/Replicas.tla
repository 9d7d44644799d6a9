------------------------------ MODULE Replicas ------------------------------
(***************************************************************************)
(* Two replicas of one database and the exchange that brings them          *)
(* together: SyncRequest::SyncTree as it is sent by sync/ops.rs and by the *)
(* background task (sync/background/mod.rs, conn.rs), answered by          *)
(* sync/handler.rs and handler_tree_ops.rs.                                *)
(*                                                                         *)
(* The client sends its tips; the server answers with the entries the      *)
(* client lacks and its own tips; the client stores them, and in the       *)
(* exchange of ops.rs sends back what the server lacks.  The exchange of   *)
(* the background task ends when the entries are stored.                   *)
(*                                                                         *)
(* A batch is stored entry by entry, in the order in which it arrives.     *)
(* collect_ancestors_to_send returns the values of a HashMap, in any       *)
(* order; a bootstrap is a breadth-first walk from the tips read           *)
(* backwards, which is not parents first either when branches differ in    *)
(* length.  An entry that the backend refuses is skipped, and a crash      *)
(* drops the rest of a batch.                                              *)
(*                                                                         *)
(* The database grants read access to everybody, so no request is refused: *)
(* who may read is the subject of Bootstrap.                               *)
(***************************************************************************)
EXTENDS EntryDag

CONSTANTS
    MaxEntries,  \* bound on the entries committed after the root
    MaxFaults,   \* bound on lost messages, refused entries and crashes
    Background   \* the replicas that sync by the background task only

VARIABLES
    par,       \* the parents of every entry that was committed; 0 is the root
    held,      \* of every replica: the entries it holds
    sync,      \* of every replica: the exchange it has started as a client
    incoming,  \* of every replica: entries it was sent as a server and has yet to store
    faults,    \* the faults so far
    partial    \* some batch was stored in part

vars == <<par, held, sync, incoming, faults, partial>>

Replica == {"a", "b"}
Other(r) == CHOOSE o \in Replica : o # r
Genesis == 0
Entry == DOMAIN par

Idle == [at |-> "idle"]

TypeOK ==
    /\ Entry \subseteq 0..MaxEntries
    /\ \A e \in Entry : par[e] \subseteq 0..(e-1)
    /\ held \in [Replica -> SUBSET Entry]
    /\ incoming \in [Replica -> SUBSET Entry]
    /\ \A r \in Replica : sync[r].at \in {"idle", "requested", "storing", "pushing"}
    /\ faults \in 0..MaxFaults
    /\ partial \in BOOLEAN

Init ==
    /\ par = [e \in {Genesis} |-> {}]
    /\ held = [r \in Replica |-> IF r = "a" THEN {Genesis} ELSE {}]
    /\ sync = [r \in Replica |-> Idle]
    /\ incoming = [r \in Replica |-> {}]
    /\ faults = 0
    /\ partial = FALSE

Snapshot(r) == Tips(par, held[r])

(* The entries whose whole history is held: those verify can settle, and    *)
(* the ones a new transaction builds on.                                    *)
Complete(r) == {e \in held[r] : \A f \in Reach(par, Entry, {e}) : f \in held[r]}

(* A local commit. *)
CommitEntry(r) ==
    /\ Genesis \in held[r]
    /\ Cardinality(Entry) <= MaxEntries
    /\ LET new == Cardinality(Entry)
       IN  /\ par' = [e \in Entry \cup {new} |->
                        IF e = new THEN Tips(par, Complete(r)) ELSE par[e]]
           /\ held' = [held EXCEPT ![r] = @ \cup {new}]
    /\ UNCHANGED <<sync, incoming, faults, partial>>

(***************************************************************************)
(* The exchange                                                            *)
(***************************************************************************)

(* sync_tree_with_peer: the request carries the snapshot of the client. *)
Request(r) ==
    /\ sync[r] = Idle
    /\ sync' = [sync EXCEPT ![r] = [at |-> "requested", tips |-> Snapshot(r)]]
    /\ UNCHANGED <<par, held, incoming, faults, partial>>

(* A faulty variant of AncestorsToSend: the tips alone. *)
TipsToSend(s, from, known) == from

(* collect_ancestors_to_send: back from `from`, never past an entry the     *)
(* receiver names as a tip.                                                 *)
AncestorsToSend(s, from, known) ==
    LET walked == [e \in Entry |-> par[e] \ known]
    IN  Reach(walked, Entry, from)

(* collect_all_entries_for_bootstrap: everything held below the tips. *)
AllEntries(s) == Reach(par, held[s], Snapshot(s))

(* What the server sends for a client whose tips are `tips`. *)
ToSend(s, tips) ==
    IF tips = {} THEN AllEntries(s) ELSE AncestorsToSend(s, Snapshot(s) \ tips, tips)

(* handle_sync_tree: a walk that meets an entry the server does not hold    *)
(* itself is an error, and so is a tree it does not have.                   *)
Answer(r) ==
    LET s == Other(r)
        send == ToSend(s, sync[r].tips)
    IN  /\ sync[r].at = "requested"
        /\ sync' = [sync EXCEPT ![r] =
               IF send \subseteq held[s] /\ Genesis \in held[s]
               THEN [at |-> "storing", batch |-> send, theirs |-> Snapshot(s),
                     bootstrap |-> sync[r].tips = {}, owed |-> held[s], clean |-> TRUE]
               ELSE Idle]
        /\ UNCHANGED <<par, held, incoming, faults, partial>>

(* The number of links from a tip of the answer down to an entry. *)
Level(r, e) ==
    LET round[n \in 0..MaxEntries] ==
            IF n = 0 THEN sync[r].theirs ELSE UNION {par[f] : f \in round[n-1]}
    IN  CHOOSE n \in 0..MaxEntries : e \in round[n] /\ \A m \in 0..(n-1) : e \notin round[m]

(* The entries of the batch that may be next: of a bootstrap the root, and  *)
(* then the ones the walk found last; any one otherwise.                    *)
NextOf(r) ==
    LET batch == sync[r].batch
    IN  IF ~sync[r].bootstrap THEN batch
        ELSE IF Genesis \in batch THEN {Genesis}
        ELSE {e \in batch : \A f \in batch : Level(r, f) <= Level(r, e)}

(* put_remote_entries of the client, one entry of the batch. *)
Store(r) ==
    /\ sync[r].at = "storing"
    /\ \E e \in NextOf(r) :
          /\ held' = [held EXCEPT ![r] = @ \cup {e}]
          /\ sync' = [sync EXCEPT ![r].batch = @ \ {e}]
    /\ UNCHANGED <<par, incoming, faults, partial>>

(* The backend refuses the entry: "logged and skipped". *)
StoreFails(r) ==
    /\ sync[r].at = "storing"
    /\ faults < MaxFaults
    /\ \E e \in NextOf(r) :
          sync' = [sync EXCEPT ![r].batch = @ \ {e}, ![r].clean = FALSE]
    /\ faults' = faults + 1
    /\ partial' = TRUE
    /\ UNCHANGED <<par, held, incoming>>

(* The batch is stored.  An exchange of ops.rs that was not a bootstrap     *)
(* goes on to send the server what its tips show it lacks; a walk that      *)
(* meets an entry the client lacks ends the exchange with an error.         *)
Stored(r) ==
    LET missing == Snapshot(r) \ sync[r].theirs
        send == AncestorsToSend(r, missing, sync[r].theirs)
    IN  /\ sync[r].at = "storing"
        /\ sync[r].batch = {}
        /\ sync' = [sync EXCEPT ![r] =
              IF sync[r].bootstrap \/ r \in Background \/ send = {} \/ ~(send \subseteq held[r])
              THEN Idle ELSE [at |-> "pushing", batch |-> send]]
        /\ UNCHANGED <<par, held, incoming, faults, partial>>

(* SendEntries reaches the server. *)
Push(r) ==
    /\ sync[r].at = "pushing"
    /\ incoming' = [incoming EXCEPT ![Other(r)] = @ \cup sync[r].batch]
    /\ sync' = [sync EXCEPT ![r] = Idle]
    /\ UNCHANGED <<par, held, faults, partial>>

(* put_remote_entries of the server, one entry. *)
Receive(s) ==
    /\ \E e \in incoming[s] :
          /\ held' = [held EXCEPT ![s] = @ \cup {e}]
          /\ incoming' = [incoming EXCEPT ![s] = @ \ {e}]
    /\ UNCHANGED <<par, sync, faults, partial>>

(* A request, an answer or a push is lost, and the call returns an error. *)
Lose(r) ==
    /\ sync[r].at \in {"requested", "pushing"}
    /\ faults < MaxFaults
    /\ sync' = [sync EXCEPT ![r] = Idle]
    /\ faults' = faults + 1
    /\ UNCHANGED <<par, held, incoming, partial>>

(* The process stops and is started again: what was stored stays. *)
Crash(r) ==
    /\ faults < MaxFaults
    /\ sync[r] # Idle \/ incoming[r] # {}
    /\ sync' = [sync EXCEPT ![r] = Idle]
    /\ incoming' = [incoming EXCEPT ![r] = {}]
    /\ faults' = faults + 1
    /\ partial' = (partial \/ sync[r].at = "storing" \/ incoming[r] # {})
    /\ UNCHANGED <<par, held>>

Next ==
    \E r \in Replica :
        \/ CommitEntry(r) \/ Request(r) \/ Answer(r) \/ Store(r) \/ StoreFails(r)
        \/ Stored(r) \/ Push(r) \/ Receive(r) \/ Lose(r) \/ Crash(r)

Spec == Init /\ [][Next]_vars

(* The periodic sync starts an exchange again and again, and an exchange    *)
(* that was started goes on unless it is lost.  Commits need not happen.    *)
FairSpec ==
    /\ Spec
    /\ \A r \in Replica :
          WF_vars(Request(r)) /\ WF_vars(Answer(r)) /\ WF_vars(Store(r))
          /\ WF_vars(Stored(r)) /\ WF_vars(Push(r)) /\ WF_vars(Receive(r))

(***************************************************************************)
(* Properties                                                              *)
(***************************************************************************)

(* A batch was stored completely. *)
Done(r) == sync[r].at = "storing" /\ sync[r].batch = {} /\ sync[r].clean

(* An exchange brings the client everything the server held when it         *)
(* answered, although the server was told only the client's tips, and also  *)
(* after a fault in an earlier exchange: "Self-correcting: Any missed       *)
(* entries are caught in subsequent syncs" (sync_tree_with_peer of the      *)
(* background task).                                                        *)
SelfCorrecting ==
    \A r \in Replica : Done(r) => sync[r].owed \subseteq held[r] \cup incoming[r]

Agree == held["a"] = held["b"] \/ partial

(* Replicas that keep syncing come to hold the same entries, also when      *)
(* messages are lost, provided that no batch was stored in part.            *)
Converges == <>[]Agree
=============================================================================
