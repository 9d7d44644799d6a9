----------------------------- MODULE MCProgress -----------------------------
(***************************************************************************)
(* What must eventually happen, on small instances explored side by side:  *)
(*   "settle"      entries arrive in any order and are decided (WritePath, *)
(*                 whose constants and variables this module inherits);    *)
(*   "replicas"    two replicas exchange a tree;                           *)
(*   "subscribers" callers of on_write on a remote instance.               *)
(* They share no state: `part` names the one whose behaviour this is, and  *)
(* the others stay in an initial state.                                    *)
(***************************************************************************)
EXTENDS MCWritePath

VARIABLES
    part,
    par, rHeld, sync, incoming, faults, partial,
    task, calls, callbacks, sub, fence, sweep, wire, acks, serving, closed, cancels

R == INSTANCE Replicas WITH
        MaxEntries <- 2, MaxFaults <- 1, Background <- {"b"}, held <- rHeld
S == INSTANCE Subscriptions WITH
        Caller <- {"a", "b"}, MaxCalls <- 2, MaxCancels <- 1

replicaVars == <<par, rHeld, sync, incoming, faults, partial>>
subscriberVars == <<task, calls, callbacks, sub, fence, sweep, wire, acks, serving,
                    closed, cancels>>

ProgressInit ==
    /\ part \in {"settle", "replicas", "subscribers"}
    /\ Init /\ (part # "settle" => world = CHOOSE w \in Worlds : TRUE)
    /\ R!Init /\ S!Init

ProgressNext ==
    /\ part' = part
    /\ IF part = "settle" THEN Next ELSE UNCHANGED vars
    /\ IF part = "replicas" THEN R!Next ELSE UNCHANGED replicaVars
    /\ IF part = "subscribers" THEN S!Next ELSE UNCHANGED subscriberVars

progressVars == <<part, vars, replicaVars, subscriberVars>>

ProgressSpec == ProgressInit /\ [][ProgressNext]_progressVars

(* The fairness of each module, owed by the part at work only: the others   *)
(* are not running.                                                         *)
SettleFairness ==
    \A d \in Receivers : WF_vars(part = "settle" /\ Ingest(d))

ReplicaFairness ==
    \A r \in R!Replica :
        /\ WF_replicaVars(part = "replicas" /\ R!Request(r))
        /\ WF_replicaVars(part = "replicas" /\ R!Answer(r))
        /\ WF_replicaVars(part = "replicas" /\ R!Store(r))
        /\ WF_replicaVars(part = "replicas" /\ R!Stored(r))
        /\ WF_replicaVars(part = "replicas" /\ R!Push(r))
        /\ WF_replicaVars(part = "replicas" /\ R!Receive(r))

SubscriberFairness ==
    /\ \A c \in {"a", "b"} :
          /\ SF_subscriberVars(part = "subscribers"
                                 /\ (S!Reuse(c) \/ S!Lead(c) \/ S!Follow(c)))
          /\ WF_subscriberVars(part = "subscribers" /\ S!LeaderDone(c))
    /\ WF_subscriberVars(part = "subscribers" /\ S!Unsubscribe)
    /\ WF_subscriberVars(part = "subscribers" /\ S!Unsubscribed)
    /\ WF_subscriberVars(part = "subscribers"
                           /\ \E permitted \in BOOLEAN : S!Dispatch(permitted))

FairProgressSpec ==
    ProgressSpec /\ SettleFairness /\ ReplicaFairness /\ SubscriberFairness

(* Replicas that keep syncing come to hold the same entries, though         *)
(* messages are lost and processes restarted, unless a batch was stored in  *)
(* part.                                                                    *)
Converges == <>[](part = "replicas" => R!Agree)

(* A callback whose on_write returned Ok is served by the daemon while the  *)
(* connection lives, whatever drops and sweeps race with it.                *)
LiveCallbackIsServed == part = "subscribers" => S!LiveCallbackIsServed

(* Every on_write call on a remote instance returns, unless a leader was    *)
(* dropped in flight.                                                       *)
SubscribersReturn == S!SubscribersReturn
=============================================================================
