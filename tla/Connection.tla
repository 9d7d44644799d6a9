----------------------------- MODULE Connection -----------------------------
(***************************************************************************)
(* One service connection: RemoteConnection::request in service/client.rs, *)
(* its reader task and mark_dead, against the request loop and the writer  *)
(* task of handle_connection in service/server.rs.                         *)
(*                                                                         *)
(* Requests carry no number: a response belongs to the oldest sender in    *)
(* `pending`.  A request is pushed and written under the writer lock, the  *)
(* response is awaited outside it, and the future of a request may be      *)
(* dropped at any await.                                                   *)
(***************************************************************************)
EXTENDS Integers, Sequences

CONSTANTS
    Caller,        \* tasks that issue requests on the connection
    MaxRequests,   \* bound on the requests of one task
    MaxTorn        \* bound on the requests dropped during their write

ASSUME ConnectionAssumption ==
    /\ "free" \notin Caller
    /\ MaxRequests \in Nat /\ MaxTorn \in Nat

VARIABLES
    stage,         \* where each task is in request()
    issued,        \* requests each task has issued
    slot,          \* what arrived at the oneshot receiver of each task
    writer,        \* the task that holds the writer lock, or Free
    pending,       \* the senders awaiting a response, oldest first
    wire,          \* frames written and not yet read by the daemon
    back,          \* response frames not yet read by the reader task
    daemon,        \* the state of the daemon's end
    closed,        \* the closed flag
    clearing,      \* who has set closed and not yet cleared pending
    reader,        \* the reader task
    torn           \* requests dropped during their write

connectionVars == <<stage, issued, slot, writer, pending, wire, back, daemon, closed,
                    clearing, reader, torn>>

ends == <<daemon, closed, clearing, reader>>

Free == "free"

Request == [caller : Caller, n : 1..MaxRequests]

(* Received when the sender was dropped. *)
Aborted == [caller |-> Free, n |-> 0]

(* A frame of which only the first bytes were written. *)
Torn == [caller |-> Free, n |-> 1]

Current(c) == [caller |-> c, n |-> issued[c]]

ConnectionTypeOK ==
    /\ stage \in [Caller -> {"idle", "admitted", "locked", "writing", "waiting"}]
    /\ issued \in [Caller -> 0..MaxRequests]
    /\ slot \in [Caller -> {<<>>} \cup {<<r>> : r \in Request \cup {Aborted}}]
    /\ writer \in Caller \cup {Free}
    /\ pending \in Seq(Request)
    /\ wire \in Seq(Request \cup {Torn})
    /\ back \in Seq(Request)
    /\ daemon \in {"serving", "mute", "wedged", "closed"}
    /\ closed \in BOOLEAN
    /\ clearing \subseteq {"reader", "sweep"}
    /\ reader \in {"reading", "eof", "aborted"}
    /\ torn \in 0..MaxTorn

ConnectionInit ==
    /\ stage = [c \in Caller |-> "idle"]
    /\ issued = [c \in Caller |-> 0]
    /\ slot = [c \in Caller |-> <<>>]
    /\ writer = Free
    /\ pending = <<>>
    /\ wire = <<>>
    /\ back = <<>>
    /\ daemon = "serving"
    /\ closed = FALSE
    /\ clearing = {}
    /\ reader = "reading"
    /\ torn = 0

-----------------------------------------------------------------------------
(* request(), step by step.                                                 *)

(* The first look at closed. *)
Begin(c) ==
    /\ stage[c] = "idle"
    /\ issued[c] < MaxRequests
    /\ issued' = [issued EXCEPT ![c] = @ + 1]
    /\ slot' = [slot EXCEPT ![c] = <<>>]
    /\ stage' = [stage EXCEPT ![c] = IF closed THEN "idle" ELSE "admitted"]
    /\ UNCHANGED <<writer, pending, wire, back, ends, torn>>

(* A faulty variant of LockIsFree: the writer is not exclusive. *)
LockIsAny == TRUE

LockIsFree == writer = Free

(* The writer lock, and the second look at closed. *)
Lock(c) ==
    /\ stage[c] = "admitted"
    /\ LockIsFree
    /\ IF closed
       THEN /\ stage' = [stage EXCEPT ![c] = "idle"]
            /\ UNCHANGED writer
       ELSE /\ stage' = [stage EXCEPT ![c] = "locked"]
            /\ writer' = c
    /\ UNCHANGED <<issued, slot, pending, wire, back, ends, torn>>

(* The sender is queued; closed is not read again. *)
Push(c) ==
    /\ stage[c] = "locked"
    /\ pending' = Append(pending, Current(c))
    /\ stage' = [stage EXCEPT ![c] = "writing"]
    /\ UNCHANGED <<issued, slot, writer, wire, back, ends, torn>>

Unlocked(c) == IF writer = c THEN Free ELSE writer

(* The frame is written whole, and the lock released. *)
WriteFrame(c) ==
    /\ stage[c] = "writing"
    /\ daemon # "closed"
    /\ wire' = Append(wire, Current(c))
    /\ writer' = Unlocked(c)
    /\ stage' = [stage EXCEPT ![c] = "waiting"]
    /\ UNCHANGED <<issued, slot, pending, back, ends, torn>>

(* The write fails: the sender at the back of the queue is taken out. *)
WriteFails(c) ==
    /\ stage[c] = "writing"
    /\ daemon = "closed"
    /\ pending' = IF pending = <<>> THEN <<>>
                  ELSE SubSeq(pending, 1, Len(pending) - 1)
    /\ writer' = Unlocked(c)
    /\ stage' = [stage EXCEPT ![c] = "idle"]
    /\ UNCHANGED <<issued, slot, wire, back, ends, torn>>

(* The oneshot resolves: a response, or a dropped sender. *)
Return(c) ==
    /\ stage[c] = "waiting"
    /\ slot[c] # <<>>
    /\ stage' = [stage EXCEPT ![c] = "idle"]
    /\ UNCHANGED <<issued, slot, writer, pending, wire, back, ends, torn>>

(* The caller drops the future while it waits for the lock or for the       *)
(* response: the sender stays queued and its response goes nowhere.         *)
Cancel(c) ==
    /\ stage[c] \in {"admitted", "waiting"}
    /\ stage' = [stage EXCEPT ![c] = "idle"]
    /\ UNCHANGED <<issued, slot, writer, pending, wire, back, ends, torn>>

(* The caller drops the future inside write_frame, before the first byte    *)
(* or after some: the sender stays queued, no whole frame was written.      *)
CancelWrite(c) ==
    /\ stage[c] = "writing"
    /\ torn < MaxTorn
    /\ torn' = torn + 1
    /\ \/ UNCHANGED wire
       \/ wire' = Append(wire, Torn)
    /\ writer' = Unlocked(c)
    /\ stage' = [stage EXCEPT ![c] = "idle"]
    /\ UNCHANGED <<issued, slot, pending, back, ends>>

-----------------------------------------------------------------------------
(* handle_connection: one request is read, dispatched and answered before   *)
(* the next is read.                                                        *)
Serve ==
    /\ daemon = "serving"
    /\ wire # <<>> /\ Head(wire) # Torn
    /\ wire' = Tail(wire)
    /\ back' = Append(back, Head(wire))
    /\ UNCHANGED <<stage, issued, slot, writer, pending, ends, torn>>

(* The response is larger than MAX_FRAME_SIZE: the writer task ends, the    *)
(* request loop does not notice.                                            *)
ServeOversized ==
    /\ daemon = "serving"
    /\ wire # <<>> /\ Head(wire) # Torn
    /\ wire' = Tail(wire)
    /\ daemon' = "mute"
    /\ UNCHANGED <<stage, issued, slot, writer, pending, back, closed, clearing,
                   reader, torn>>

(* The loop ends: the daemon shuts down, a torn frame completed by the      *)
(* bytes of the next one does not parse, or the next response finds the     *)
(* writer task gone.                                                        *)
Close ==
    /\ \/ daemon \in {"serving", "wedged"}
       \/ daemon = "mute" /\ wire # <<>>
    /\ daemon' = "closed"
    /\ wire' = <<>>
    /\ UNCHANGED <<stage, issued, slot, writer, pending, back, closed, clearing,
                   reader, torn>>

(* The daemon neither answers nor closes the socket. *)
Wedge ==
    /\ daemon = "serving"
    /\ daemon' = "wedged"
    /\ UNCHANGED <<stage, issued, slot, writer, pending, wire, back, closed,
                   clearing, reader, torn>>

-----------------------------------------------------------------------------
(* run_reader_task and mark_dead.                                           *)

Awaits(r) == stage[r.caller] \in {"writing", "waiting"} /\ r = Current(r.caller)

(* A response goes to the oldest sender; its receiver may be gone. *)
ReadResponse ==
    /\ reader = "reading"
    /\ back # <<>>
    /\ back' = Tail(back)
    /\ IF pending = <<>>
       THEN UNCHANGED <<pending, slot>>
       ELSE /\ pending' = Tail(pending)
            /\ slot' = IF Awaits(Head(pending))
                       THEN [slot EXCEPT ![Head(pending).caller] = <<Head(back)>>]
                       ELSE slot
    /\ UNCHANGED <<stage, issued, writer, wire, ends, torn>>

(* mark_dead, first half: at the end of the stream, or by the sweep whose   *)
(* UnsubscribeWrites is not acknowledged in time.                           *)
MarkDead(who) ==
    /\ \/ /\ who = "reader"
          /\ reader = "reading" /\ daemon = "closed" /\ back = <<>>
          /\ reader' = "eof"
       \/ /\ who = "sweep"
          /\ daemon = "wedged" /\ ~closed
          /\ UNCHANGED reader
    /\ closed' = TRUE
    /\ clearing' = clearing \cup {who}
    /\ UNCHANGED <<stage, issued, slot, writer, pending, wire, back, daemon, torn>>

(* A faulty variant of Drained: the senders are left in the queue. *)
DrainedNot(c) == FALSE

(* The sender of the call that task c awaits is dropped. *)
Drained(c) == \E i \in DOMAIN pending : Awaits(pending[i]) /\ pending[i].caller = c

(* mark_dead, second half: pending is cleared and the reader aborted. *)
Clear(who) ==
    /\ who \in clearing
    /\ clearing' = clearing \ {who}
    /\ pending' = <<>>
    /\ slot' = [c \in Caller |-> IF Drained(c) THEN <<Aborted>> ELSE slot[c]]
    /\ reader' = IF reader = "reading" THEN "aborted" ELSE reader
    /\ UNCHANGED <<stage, issued, writer, wire, back, daemon, closed, torn>>

-----------------------------------------------------------------------------
ConnectionNext ==
    \/ \E c \in Caller :
          \/ Begin(c) \/ Lock(c) \/ Push(c)
          \/ WriteFrame(c) \/ WriteFails(c) \/ Return(c)
          \/ Cancel(c) \/ CancelWrite(c)
    \/ Serve \/ ServeOversized \/ Close \/ Wedge
    \/ ReadResponse
    \/ \E who \in {"reader", "sweep"} : MarkDead(who) \/ Clear(who)

ConnectionSpec == ConnectionInit /\ [][ConnectionNext]_connectionVars

(* request: "the FIFO order in pending lines up with the on-wire order so   *)
(* the reader task pairs each ServerFrame::Response with the right caller", *)
(* whatever the tasks and the reader interleave and whichever callers give  *)
(* up, as long as none gives up inside its write.                           *)
ResponsesPair ==
    torn = 0 =>
        \A c \in Caller :
            stage[c] = "waiting" /\ slot[c] # <<>> => slot[c][1] \in {Current(c), Aborted}

(* A daemon that goes away strands nobody: once the reader task has seen    *)
(* the end of the stream and cleared pending, every request whose frame was *)
(* written has its answer or its ConnectionAborted.                         *)
EofStrandsNobody ==
    reader = "eof" /\ clearing = {} =>
        \A c \in Caller : stage[c] = "waiting" => slot[c] # <<>>

(* request: "Without the post-push check, a fresh request landing right     *)
(* after the reader clears could push a sender into the orphan queue and    *)
(* rx.await forever."  On a connection marked dead nobody waits for a       *)
(* response that cannot come.                                               *)
DeadStrandsNobody ==
    closed /\ clearing = {} =>
        \A c \in Caller : stage[c] = "waiting" => slot[c] # <<>>

=============================================================================
