--------------------------- MODULE Subscriptions ---------------------------
(***************************************************************************)
(* The write subscription of one database on a service connection:         *)
(* Database::on_write_at_tips, WriteCallback::drop, subscribe_writes,      *)
(* transition_to_idle and run_sweep_task of the client, SubscribeWrites    *)
(* and UnsubscribeWrites of the daemon.                                    *)
(*                                                                         *)
(* subscribed_trees is behind a mutex that is never held across an await.  *)
(* The per-tree fence (subscription_lock) is held by subscribe_writes and  *)
(* by the sweep until the daemon has answered; the drop of a callback      *)
(* takes no fence.  The future of an on_write may be dropped at any await. *)
(***************************************************************************)
EXTENDS Integers, Sequences, TLC

CONSTANTS
    Caller,      \* tasks that register a callback
    MaxCalls,    \* bound on the on_write calls of one task
    MaxCancels   \* bound on the futures dropped

VARIABLES
    task,        \* where each task is in on_write or in the drop of its handle
    calls,       \* on_write calls of each task
    callbacks,   \* write_callbacks of the instance: whose are registered
    sub,         \* subscribed_trees: the state of this tree
    fence,       \* who holds the subscription lock, or Free
    sweep,       \* the sweep task
    wire,        \* requests the daemon has not yet handled
    acks,        \* its answers: who, and whether it was done
    serving,     \* the daemon holds the subscription of this connection
    closed,      \* the connection is marked dead
    cancels      \* futures dropped

vars == <<task, calls, callbacks, sub, fence, sweep, wire, acks, serving, closed,
          cancels>>

Free == "free"
Sweep == "sweep"

TypeOK ==
    /\ task \in [Caller -> {"idle", "waiting", "leading", "following", "live",
                            "dropping", "last"}]
    /\ calls \in [Caller -> 0..MaxCalls]
    /\ callbacks \subseteq Caller
    /\ sub \in {"absent", "inflight", "subscribed", "idle", "due"}
    /\ fence \in Caller \cup {Free, Sweep}
    /\ sweep \in {"asleep", "chosen", "unsubscribing", "ended"}
    /\ wire \in Seq([from : Caller \cup {Sweep}, call : 0..MaxCalls])
    /\ acks \subseteq [from : Caller \cup {Sweep}, call : 0..MaxCalls, ok : BOOLEAN]
    /\ serving \in BOOLEAN
    /\ closed \in BOOLEAN
    /\ cancels \in 0..MaxCancels

Init ==
    /\ task = [c \in Caller |-> "idle"]
    /\ calls = [c \in Caller |-> 0]
    /\ callbacks = {}
    /\ sub = "absent"
    /\ fence = Free
    /\ sweep = "asleep"
    /\ wire = <<>>
    /\ acks = {}
    /\ serving = FALSE
    /\ closed = FALSE
    /\ cancels = 0

-----------------------------------------------------------------------------
(* on_write_at_tips: the callback enters the registry before the            *)
(* subscription is asked for.                                               *)
Register(c) ==
    /\ task[c] = "idle"
    /\ calls[c] < MaxCalls
    /\ calls' = [calls EXCEPT ![c] = @ + 1]
    /\ callbacks' = callbacks \cup {c}
    /\ task' = [task EXCEPT ![c] = "waiting"]
    /\ UNCHANGED <<sub, fence, sweep, wire, acks, serving, closed, cancels>>

Sent(c) == [from |-> c, call |-> calls[c]]

(* subscribe_writes on a tree that is Subscribed, or Idle and not yet       *)
(* swept: no request, the fence is released at once.                        *)
Reuse(c) ==
    /\ task[c] = "waiting"
    /\ fence = Free
    /\ sub \in {"subscribed", "idle", "due"}
    /\ sub' = "subscribed"
    /\ task' = [task EXCEPT ![c] = "live"]
    /\ UNCHANGED <<calls, callbacks, fence, sweep, wire, acks, serving, closed, cancels>>

(* The leader: InFlight, and SubscribeWrites is sent.  On a closed          *)
(* connection the request fails before it is written.                       *)
Lead(c) ==
    /\ task[c] = "waiting"
    /\ fence = Free
    /\ sub = "absent"
    /\ IF closed
       THEN /\ task' = [task EXCEPT ![c] = "dropping"]
            /\ UNCHANGED <<sub, fence, wire>>
       ELSE /\ task' = [task EXCEPT ![c] = "leading"]
            /\ sub' = "inflight"
            /\ fence' = c
            /\ wire' = Append(wire, Sent(c))
    /\ UNCHANGED <<calls, callbacks, sweep, acks, serving, closed, cancels>>

(* The follower keeps the fence and waits for the leader's notify. *)
Follow(c) ==
    /\ task[c] = "waiting"
    /\ fence = Free
    /\ sub = "inflight"
    /\ task' = [task EXCEPT ![c] = "following"]
    /\ fence' = c
    /\ UNCHANGED <<calls, callbacks, sub, sweep, wire, acks, serving, closed, cancels>>

(* The leader has its answer; a closed connection is a failure.  On a       *)
(* failure on_write returns its error and drops the callback.               *)
LeaderDone(c) ==
    /\ task[c] = "leading"
    /\ closed \/ \E a \in acks : a.from = c /\ a.call = calls[c]
    /\ LET ok == \E a \in acks : a.from = c /\ a.call = calls[c] /\ a.ok
       IN /\ sub' = IF ok THEN "subscribed" ELSE "absent"
          /\ task' = [task EXCEPT ![c] = IF ok THEN "live" ELSE "dropping"]
    /\ acks' = {a \in acks : a.from # c}
    /\ fence' = Free
    /\ UNCHANGED <<calls, callbacks, sweep, wire, serving, closed, cancels>>

(* The future of on_write is dropped: the fence is released, the callback   *)
(* is dropped next, the state of the tree is left as it is.                 *)
Cancel(c) ==
    /\ task[c] \in {"waiting", "leading", "following"}
    /\ cancels < MaxCancels
    /\ cancels' = cancels + 1
    /\ task' = [task EXCEPT ![c] = "dropping"]
    /\ fence' = IF fence = c THEN Free ELSE fence
    /\ UNCHANGED <<calls, callbacks, sub, sweep, wire, acks, serving, closed>>

(* WriteCallback::drop, first step: the callback leaves the registry. *)
RemoveWriteCallback(c) ==
    /\ task[c] \in {"live", "dropping"}
    /\ callbacks' = callbacks \ {c}
    /\ task' = [task EXCEPT ![c] = IF callbacks = {c} THEN "last" ELSE "idle"]
    /\ UNCHANGED <<calls, sub, fence, sweep, wire, acks, serving, closed, cancels>>

MayIdle == callbacks = {} /\ sub = "subscribed"

(* Its second step when it was the last: transition_to_idle. *)
TransitionToIdle(c) ==
    /\ task[c] = "last"
    /\ sub' = IF MayIdle THEN "idle" ELSE sub
    /\ task' = [task EXCEPT ![c] = "idle"]
    /\ UNCHANGED <<calls, callbacks, fence, sweep, wire, acks, serving, closed, cancels>>

-----------------------------------------------------------------------------
(* run_sweep_task.                                                          *)

(* IDLE_GRACE_WINDOW has passed since the tree became Idle. *)
GraceElapses ==
    /\ sub = "idle"
    /\ sub' = "due"
    /\ UNCHANGED <<task, calls, callbacks, fence, sweep, wire, acks, serving, closed,
                   cancels>>

(* A tick: the tree is among the candidates. *)
Choose ==
    /\ sweep = "asleep"
    /\ sub = "due"
    /\ sweep' = "chosen"
    /\ UNCHANGED <<task, calls, callbacks, sub, fence, wire, acks, serving, closed,
                   cancels>>

(* A faulty variant of StillDue: the candidate is trusted. *)
StillDueAsChosen == sub \in {"subscribed", "idle", "due"}

StillDue == sub = "due"

(* The fence, the second look, and UnsubscribeWrites. *)
Unsubscribe ==
    /\ sweep = "chosen"
    /\ fence = Free
    /\ IF StillDue
       THEN /\ sub' = "absent"
            /\ IF closed
               THEN /\ sweep' = "asleep"
                    /\ UNCHANGED <<fence, wire>>
               ELSE /\ sweep' = "unsubscribing"
                    /\ fence' = Sweep
                    /\ wire' = Append(wire, [from |-> Sweep, call |-> 0])
       ELSE /\ sweep' = "asleep"
            /\ UNCHANGED <<sub, fence, wire>>
    /\ UNCHANGED <<task, calls, callbacks, acks, serving, closed, cancels>>

(* A faulty variant of SweepAnswered: a refusal is not an answer. *)
SweepAcknowledged == \E a \in acks : a.from = Sweep /\ a.ok

SweepAnswered == \E a \in acks : a.from = Sweep

(* The answer, whatever it is, ends the round trip. *)
Unsubscribed ==
    /\ sweep = "unsubscribing"
    /\ closed \/ SweepAnswered
    /\ sweep' = "asleep"
    /\ acks' = {a \in acks : a.from # Sweep}
    /\ fence' = Free
    /\ UNCHANGED <<task, calls, callbacks, sub, wire, serving, closed, cancels>>

(* UNSUBSCRIBE_RTT_TIMEOUT: the connection is marked dead, the sweep ends. *)
UnsubscribeTimeout ==
    /\ sweep = "unsubscribing"
    /\ ~closed
    /\ wire # <<>>
    /\ closed' = TRUE
    /\ sweep' = "ended"
    /\ fence' = Free
    /\ UNCHANGED <<task, calls, callbacks, sub, wire, acks, serving, cancels>>

-----------------------------------------------------------------------------
(* The daemon handles the requests of a connection one after the other.     *)
(* Both are gated by Read on the tree; both are idempotent.                 *)
Dispatch(permitted) ==
    /\ wire # <<>>
    /\ ~closed
    /\ wire' = Tail(wire)
    /\ serving' = IF permitted THEN Head(wire).from # Sweep ELSE serving
    /\ acks' = acks \cup {Head(wire) @@ [ok |-> permitted]}
    /\ UNCHANGED <<task, calls, callbacks, sub, fence, sweep, closed, cancels>>

(* The connection ends: the daemon's guard removes its subscriptions. *)
Disconnect ==
    /\ ~closed \/ serving
    /\ closed' = TRUE
    /\ serving' = FALSE
    /\ UNCHANGED <<task, calls, callbacks, sub, fence, sweep, wire, acks, cancels>>

-----------------------------------------------------------------------------
Next ==
    \/ \E c \in Caller :
          \/ Register(c) \/ Reuse(c) \/ Lead(c) \/ Follow(c) \/ LeaderDone(c)
          \/ Cancel(c) \/ RemoveWriteCallback(c) \/ TransitionToIdle(c)
    \/ GraceElapses \/ Choose \/ Unsubscribe \/ Unsubscribed \/ UnsubscribeTimeout
    \/ \E permitted \in BOOLEAN : Dispatch(permitted)
    \/ Disconnect

(* What the runtime owes: a spawned task is polled, the daemon answers on a *)
(* connection that lives, and tokio's mutex is handed over in order.        *)
Fairness ==
    /\ \A c \in Caller :
          /\ SF_vars(Reuse(c) \/ Lead(c) \/ Follow(c))
          /\ WF_vars(LeaderDone(c))
    /\ WF_vars(Unsubscribe) /\ WF_vars(Unsubscribed)
    /\ WF_vars(\E permitted \in BOOLEAN : Dispatch(permitted))

Spec == Init /\ [][Next]_vars

FairSpec == Spec /\ Fairness

(* A callback whose on_write returned Ok hears of every write while the     *)
(* connection lives: the daemon holds the subscription, no request that     *)
(* ends it is on the way, and the tree is not on its way to the sweep.      *)
LiveCallbackIsServed ==
    ~closed /\ (\E c \in Caller : task[c] = "live") =>
        /\ serving
        /\ sub = "subscribed"
        /\ \A i \in DOMAIN wire : wire[i].from # Sweep

(* The entry left behind by a leader whose future was dropped. *)
Abandoned == sub = "inflight" /\ \A c \in Caller : task[c] # "leading"

(* subscribe_writes: every on_write call returns, whatever the sweep, the   *)
(* drops and the other calls do, unless a leader was dropped in flight.     *)
SubscribersReturn ==
    \A c \in Caller : (task[c] \in {"waiting", "leading"})
                        ~> (task[c] \notin {"waiting", "leading"} \/ Abandoned)
=============================================================================
