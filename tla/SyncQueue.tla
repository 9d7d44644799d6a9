------------------------------ MODULE SyncQueue ------------------------------
(***************************************************************************)
(* The sending side of the background sync engine: the queue of entries    *)
(* waiting for each peer (sync/queue.rs), the engine's select loop with    *)
(* its queue timer, retry timer and commands, and the retry queue with     *)
(* exponential backoff (sync/background/mod.rs).                           *)
(*                                                                         *)
(* The engine is one task, so its passes never overlap; every send in a    *)
(* pass is an await, between which writers enqueue, the clock advances and *)
(* links fail.  A batch carries its age, the time since its                *)
(* last_attempt_ms, in place of an absolute clock.                         *)
(***************************************************************************)
EXTENDS Naturals, Sequences

CONSTANTS
    Peers,          \* peers of the database written to
    Items,          \* entries committed locally
    MaxAttempts,    \* sends of one batch before it is given up: 10
    BackoffCap,     \* attempts after which the backoff stops doubling: 6
    MaxFaults,      \* bound: links cut, unreadable entries, refused batches
    MaxFlushes,     \* bound: calls of flush
    MaxRestarts     \* bound: restarts of the process

ASSUME QueueAssumption ==
    /\ MaxAttempts \in Nat \ {0, 1}
    /\ BackoffCap \in Nat

VARIABLES
    queue,      \* SyncQueue: per peer, the entries waiting
    retry,      \* retry_queue
    cmds,       \* command channel, oldest first
    pass,       \* the pass the engine is in, with its local variables
    link,       \* peers that answer now
    instance,   \* the Instance is alive (the engine holds it weakly)
    received,   \* peer |-> entries it has stored
    enqueued,   \* every <<peer, entry>> ever handed to the engine
    dropped,    \* [to, why]: hand-overs the code abandons, and why
    fails,      \* <<peer, entry>> |-> failed sends of it
    flush,      \* [state, mark]: the call of flush, and enqueued when it began
    faults, flushes, restarts

vars == <<queue, retry, cmds, pass, link, instance, received, enqueued,
          dropped, fails, flush, faults, flushes, restarts>>

Handover == Peers \X Items

Elements(entries) == {entries[i] : i \in DOMAIN entries}

(* What a hand-over to peer p of each of the entries amounts to. *)
To(p, entries) == {<<p, entries[i]>> : i \in DOMAIN entries}
In(batches) == UNION {To(batches[i].peer, batches[i].entries) : i \in DOMAIN batches}
Waiting(q) == UNION {To(p, q[p]) : p \in Peers}
Sends(cs) == UNION {To(cs[i].peer, cs[i].entries) :
                      i \in {i \in DOMAIN cs : cs[i].kind = "send"}}

EmptyQueue == [p \in Peers |-> <<>>]
Idle == [kind |-> "select", work |-> <<>>, kept |-> <<>>, batches |-> EmptyQueue,
         since |-> 0, failed |-> FALSE]

Backoff(attempts) == 2 ^ (IF attempts < BackoffCap THEN attempts ELSE BackoffCap)
MaxAge == 2 ^ BackoffCap

Pending == Waiting(queue) \cup In(retry) \cup Sends(cmds) \cup In(pass.work)
           \cup In(pass.kept) \cup Waiting(pass.batches)
Delivered == {h \in Handover : h[2] \in received[h[1]]}
Dropped == {d.to : d \in dropped}

Drop(hs, why) == {[to |-> h, why |-> why] : h \in hs}

Batch == [peer : Peers, entries : Seq(Items), attempts : Nat, age : Nat, due : BOOLEAN]
Command == [kind : {"send"}, peer : Peers, entries : Seq(Items)] \cup [kind : {"flush"}]

Pass == [kind : {"select", "retry", "flushRetry", "drain", "flushDrain"},
         work : Seq(Batch), kept : Seq(Batch), batches : [Peers -> Seq(Items)],
         since : Nat, failed : BOOLEAN]
Reasons == {"refused", "unreadable", "attempts", "instance", "restart"}

TypeOK ==
    /\ queue \in [Peers -> Seq(Items)]
    /\ retry \in Seq(Batch)
    /\ cmds \in Seq(Command)
    /\ pass \in Pass
    /\ link \subseteq Peers
    /\ instance \in BOOLEAN
    /\ received \in [Peers -> SUBSET Items]
    /\ enqueued \subseteq Handover
    /\ dropped \subseteq [to : Handover, why : Reasons]
    /\ fails \in [Handover -> Nat]
    /\ flush \in [state : {"none", "waiting", "ok", "err"}, mark : SUBSET Handover]
-----------------------------------------------------------------------------
Init ==
    /\ queue = EmptyQueue
    /\ retry = <<>>
    /\ cmds = <<>>
    /\ pass = Idle
    /\ link = Peers
    /\ instance = TRUE
    /\ received = [p \in Peers |-> {}]
    /\ enqueued = {}
    /\ dropped = {}
    /\ fails = [h \in Handover |-> 0]
    /\ flush = [state |-> "none", mark |-> {}]
    /\ faults = 0
    /\ flushes = 0
    /\ restarts = 0

Fault == faults < MaxFaults /\ faults' = faults + 1

(* SyncQueue::enqueue, called by on_local_write for every peer of the      *)
(* database and every new entry.                                           *)
Enqueue(p, x) ==
    /\ instance
    /\ <<p, x>> \notin enqueued
    /\ enqueued' = enqueued \cup {<<p, x>>}
    /\ queue' = [queue EXCEPT ![p] = Append(@, x)]
    /\ UNCHANGED <<retry, cmds, pass, link, instance, received, dropped, fails,
                   flush, faults, flushes, restarts>>

(* send_entries_to_peer: the entries travel in the command. *)
SendEntries(p, x) ==
    /\ instance
    /\ <<p, x>> \notin enqueued
    /\ enqueued' = enqueued \cup {<<p, x>>}
    /\ cmds' = Append(cmds, [kind |-> "send", peer |-> p, entries |-> <<x>>])
    /\ UNCHANGED <<queue, retry, pass, link, instance, received, dropped, fails,
                   flush, faults, flushes, restarts>>

Flush ==
    /\ flush.state # "waiting"
    /\ flushes < MaxFlushes
    /\ flushes' = flushes + 1
    /\ flush' = [state |-> "waiting", mark |-> enqueued]
    /\ cmds' = Append(cmds, [kind |-> "flush"])
    /\ UNCHANGED <<queue, retry, pass, link, instance, received, enqueued,
                   dropped, fails, faults, restarts>>
-----------------------------------------------------------------------------
(* send_to_peer, for a batch of entries.  A peer that cannot be reached    *)
(* may still have stored the batch: only its answer is known to be lost.   *)
(* The receiving handler acknowledges a batch it failed to store.          *)
Acked(p, entries) ==
    /\ instance
    /\ p \in link
    /\ UNCHANGED fails
    /\ \E stored \in SUBSET Elements(entries) :
         LET refused == Elements(entries) \ stored
         IN  /\ received' = [received EXCEPT ![p] = @ \cup stored]
             /\ dropped' = dropped \cup Drop({p} \X refused, "refused")
             /\ \/ refused = {} /\ UNCHANGED faults
                \/ refused # {} /\ Fault

(* The sender knows of no answer and keeps the batch, unless giveUp. *)
Unacked(p, entries, giveUp) ==
    /\ ~ (instance /\ p \in link)
    /\ fails' = [h \in Handover |-> IF h \in To(p, entries) THEN fails[h] + 1 ELSE fails[h]]
    /\ \E stored \in SUBSET Elements(entries) :
         /\ instance \/ stored = {}
         /\ received' = [received EXCEPT ![p] = @ \cup stored]
    /\ dropped' = IF giveUp THEN dropped \cup Drop(To(p, entries), "attempts") ELSE dropped
    /\ UNCHANGED faults

(* A RetryEntry; due marks it for the pass that took it. *)
RetryEntry(p, entries, attempts, age) ==
    [peer |-> p, entries |-> entries, attempts |-> attempts, age |-> age, due |-> FALSE]

(* handle_command, SendEntries. *)
HandleSend ==
    /\ pass.kind = "select"
    /\ cmds # <<>>
    /\ Head(cmds).kind = "send"
    /\ cmds' = Tail(cmds)
    /\ LET p == Head(cmds).peer
           es == Head(cmds).entries
       IN  \/ Acked(p, es) /\ UNCHANGED retry
           \/ /\ Unacked(p, es, FALSE)
              /\ retry' = Append(retry, RetryEntry(p, es, 1, 0))
    /\ UNCHANGED <<queue, pass, link, instance, enqueued, flush, flushes, restarts>>

(* process_retry_queue: the clock is read once, so which batches are due   *)
(* is settled when the pass begins.  Without an instance the clock reads   *)
(* zero and no batch is due.                                               *)
StartRetries ==
    /\ pass.kind = "select"
    /\ retry # <<>>
    /\ pass' = [Idle EXCEPT !.kind = "retry",
                            !.work = [i \in DOMAIN retry |->
                               [retry[i] EXCEPT !.due =
                                  instance /\ retry[i].age >= Backoff(retry[i].attempts)]]]
    /\ retry' = <<>>
    /\ UNCHANGED <<queue, cmds, link, instance, received, enqueued, dropped,
                   fails, flush, faults, flushes, restarts>>

(* handle_command, Flush: flush_retry_queue takes every batch, due or not. *)
StartFlush ==
    /\ pass.kind = "select"
    /\ cmds # <<>>
    /\ Head(cmds).kind = "flush"
    /\ cmds' = Tail(cmds)
    /\ pass' = [Idle EXCEPT !.kind = "flushRetry",
                            !.work = [i \in DOMAIN retry |-> [retry[i] EXCEPT !.due = TRUE]]]
    /\ retry' = <<>>
    /\ UNCHANGED <<queue, link, instance, received, enqueued, dropped,
                   fails, flush, faults, flushes, restarts>>

(* Faulty variants: a batch not due is forgotten; its backoff restarts. *)
NotReadyForgotten(b) == pass.kept
NotReadyRestarts(b) == Append(pass.kept, [b EXCEPT !.age = pass.since])

(* A batch that is not due goes back into the retry queue as it is. *)
NotReady(b) == Append(pass.kept, b)

(* Faulty variant: one attempt too many. *)
ExhaustedLate(attempts) == attempts > MaxAttempts

Exhausted(attempts) == attempts >= MaxAttempts

(* One batch of process_retry_queue or of flush_retry_queue. *)
RetryOne ==
    /\ pass.kind \in {"retry", "flushRetry"}
    /\ pass.work # <<>>
    /\ LET b == Head(pass.work)
           failed == RetryEntry(b.peer, b.entries, b.attempts + 1, pass.since)
           exhausted == Exhausted(failed.attempts)
           rest(kept) == pass' = [pass EXCEPT !.work = Tail(@), !.kept = kept]
       IN  \/ /\ b.due
              /\ Acked(b.peer, b.entries)
              /\ rest(pass.kept)
           \/ /\ b.due
              /\ Unacked(b.peer, b.entries, exhausted)
              /\ rest(IF exhausted THEN pass.kept ELSE Append(pass.kept, failed))
           \/ /\ ~ b.due
              /\ rest(NotReady(b))
              /\ UNCHANGED <<received, dropped, fails, faults>>
    /\ UNCHANGED <<queue, retry, cmds, link, instance, enqueued, flush, flushes, restarts>>

EndRetries ==
    /\ pass.kind = "retry"
    /\ pass.work = <<>>
    /\ retry' = pass.kept
    /\ pass' = Idle
    /\ UNCHANGED <<queue, cmds, link, instance, received, enqueued, dropped,
                   fails, flush, faults, flushes, restarts>>
-----------------------------------------------------------------------------
(* The opening of process_queue: SyncQueue::drain, then the upgrade of the *)
(* instance, without which every batch is lost and counted as failed.      *)
(* Of the failures counted, flush asks only whether there were any.        *)
Drain(kind, failed) ==
    /\ queue' = EmptyQueue
    /\ pass' = [Idle EXCEPT
                  !.kind = kind,
                  !.batches = IF instance THEN queue ELSE EmptyQueue,
                  !.failed = failed \/ (~ instance /\ queue # EmptyQueue)]
    /\ dropped' = IF instance THEN dropped
                  ELSE dropped \cup Drop(Waiting(queue), "instance")

(* The queue timer. *)
StartDrain ==
    /\ pass.kind = "select"
    /\ queue # EmptyQueue
    /\ Drain("drain", FALSE)
    /\ UNCHANGED <<retry, cmds, link, instance, received, enqueued, fails,
                   flush, faults, flushes, restarts>>

(* Faulty variant: the failures of flush_retry_queue are not counted. *)
FlushRetriedUncounted ==
    /\ pass.kind = "flushRetry"
    /\ pass.work = <<>>
    /\ retry' = pass.kept
    /\ Drain("flushDrain", FALSE)
    /\ UNCHANGED <<cmds, link, instance, received, enqueued, fails, flush,
                   faults, flushes, restarts>>

(* The end of flush_retry_queue, and process_queue's opening after it. *)
FlushRetried ==
    /\ pass.kind = "flushRetry"
    /\ pass.work = <<>>
    /\ retry' = pass.kept
    /\ Drain("flushDrain", pass.kept # <<>>)
    /\ UNCHANGED <<cmds, link, instance, received, enqueued, fails, flush,
                   faults, flushes, restarts>>

Without(entries, i) ==
    [j \in 1..(Len(entries) - 1) |-> IF j < i THEN entries[j] ELSE entries[j + 1]]

(* process_queue leaves out of a peer's batch an entry the backend fails   *)
(* to return; a batch with none left is skipped.                           *)
Unreadable(p) ==
    /\ pass.kind \in {"drain", "flushDrain"}
    /\ \E i \in DOMAIN pass.batches[p] :
         /\ pass' = [pass EXCEPT !.batches[p] = Without(@, i)]
         /\ dropped' = dropped \cup Drop({<<p, pass.batches[p][i]>>}, "unreadable")
    /\ Fault
    /\ UNCHANGED <<queue, retry, cmds, link, instance, received, enqueued,
                   fails, flush, flushes, restarts>>

(* process_queue sends a peer's batch. *)
SendBatch(p) ==
    /\ pass.kind \in {"drain", "flushDrain"}
    /\ pass.batches[p] # <<>>
    /\ LET es == pass.batches[p]
           sent(failed) == pass' = [pass EXCEPT !.batches[p] = <<>>, !.failed = @ \/ failed]
       IN  \/ Acked(p, es) /\ sent(FALSE) /\ UNCHANGED retry
           \/ /\ Unacked(p, es, FALSE)
              /\ sent(TRUE)
              /\ retry' = Append(retry, RetryEntry(p, es, 1, 0))
    /\ UNCHANGED <<queue, cmds, link, instance, enqueued, flush, flushes, restarts>>

(* The end of process_queue, and the answer when a flush asked for it. *)
EndDrain ==
    /\ pass.kind \in {"drain", "flushDrain"}
    /\ pass.batches = EmptyQueue
    /\ pass' = Idle
    /\ flush' = IF pass.kind = "drain" THEN flush
                ELSE [flush EXCEPT !.state = IF pass.failed THEN "err" ELSE "ok"]
    /\ UNCHANGED <<queue, retry, cmds, link, instance, received, enqueued,
                   dropped, fails, faults, flushes, restarts>>
-----------------------------------------------------------------------------
(* Time passes for the batches that wait. *)
Older(batches) == [i \in DOMAIN batches |->
                     [batches[i] EXCEPT !.age = IF @ < MaxAge THEN @ + 1 ELSE @]]

Tick ==
    /\ retry' = Older(retry)
    /\ pass' = [pass EXCEPT !.work = Older(@), !.kept = Older(@),
                            !.since = IF pass.kind \in {"retry", "flushRetry"} /\ @ < MaxAge
                                      THEN @ + 1 ELSE @]
    /\ <<retry', pass'>> # <<retry, pass>>
    /\ UNCHANGED <<queue, cmds, link, instance, received, enqueued, dropped,
                   fails, flush, faults, flushes, restarts>>

LinkDown(p) ==
    /\ p \in link
    /\ link' = link \ {p}
    /\ Fault
    /\ UNCHANGED <<queue, retry, cmds, pass, instance, received, enqueued,
                   dropped, fails, flush, flushes, restarts>>

LinkUp(p) ==
    /\ p \notin link
    /\ link' = link \cup {p}
    /\ UNCHANGED <<queue, retry, cmds, pass, instance, received, enqueued,
                   dropped, fails, flush, faults, flushes, restarts>>

(* The last strong reference to the Instance goes; process_queue holds one *)
(* while it runs.  The engine's loop goes on: its timers keep the select   *)
(* from ever reaching its else branch.                                     *)
InstanceDropped ==
    /\ instance
    /\ pass.kind \notin {"drain", "flushDrain"}
    /\ instance' = FALSE
    /\ UNCHANGED <<queue, retry, cmds, pass, link, received, enqueued, dropped,
                   fails, flush, faults, flushes, restarts>>

(* The process restarts: queue, retry queue and channel are in memory.     *)
(* The caller of flush is gone with it.                                    *)
Restart ==
    /\ restarts < MaxRestarts
    /\ restarts' = restarts + 1
    /\ queue' = EmptyQueue
    /\ retry' = <<>>
    /\ cmds' = <<>>
    /\ pass' = Idle
    /\ instance' = TRUE
    /\ dropped' = dropped \cup Drop(Pending, "restart")
    /\ flush' = [state |-> "none", mark |-> {}]
    /\ UNCHANGED <<link, received, enqueued, fails, faults, flushes>>

Next ==
    \/ \E p \in Peers, x \in Items : Enqueue(p, x) \/ SendEntries(p, x)
    \/ Flush \/ HandleSend
    \/ StartRetries \/ StartFlush \/ RetryOne \/ EndRetries
    \/ StartDrain \/ FlushRetried \/ EndDrain
    \/ \E p \in Peers : Unreadable(p) \/ SendBatch(p) \/ LinkDown(p) \/ LinkUp(p)
    \/ Tick \/ InstanceDropped \/ Restart

Spec == Init /\ [][Next]_vars

(* The engine's task runs; its timers and the clock go on.  select! polls  *)
(* its branches in random order, so a branch ready again and again is      *)
(* taken: strong fairness for what starts a pass.                          *)
FairSpec ==
    /\ Spec
    /\ WF_vars(RetryOne \/ EndRetries \/ FlushRetried \/ EndDrain)
    /\ WF_vars(\E p \in Peers : SendBatch(p))
    /\ WF_vars(Tick)
    /\ SF_vars(StartDrain)
    /\ SF_vars(StartRetries)
    /\ SF_vars(HandleSend \/ StartFlush)
-----------------------------------------------------------------------------
(* Every entry handed to the engine for a peer is stored there, or is      *)
(* still waiting somewhere in the engine, or was abandoned in one of five  *)
(* known ways: draining a queue, splitting it into batches and moving      *)
(* batches between the retry queue and a pass lose nothing on the way.     *)
NothingLost == enqueued \subseteq Delivered \cup Pending \cup Dropped

(* A batch is given up only after all its sends have failed, and nothing   *)
(* is sent again after that: attempts counts the failed sends of a batch   *)
(* exactly, whichever of the first send, the timer and flush made them.    *)
GiveUpIsEarned ==
    /\ \A h \in Handover : fails[h] <= MaxAttempts
    /\ \A d \in dropped : d.why = "attempts" => fails[d.to] = MaxAttempts

(* When flush answers Ok, everything handed over before the call is        *)
(* stored at its peer or abandoned: none of it is still waiting.           *)
FlushIsABarrier ==
    [][flush.state = "waiting" /\ flush'.state = "ok"
         => flush.mark \subseteq (Delivered \cup Dropped)']_vars

(* An entry handed over is in the end stored at its peer or abandoned,     *)
(* unless the instance goes away: no batch waits in the engine for ever.   *)
EventuallySent ==
    \A h \in Handover :
        (h \in enqueued) ~> (h \in Delivered \cup Dropped \/ ~ instance)
=============================================================================
