-------------------------- MODULE ConnectionProofs --------------------------
(***************************************************************************)
(* The service connection, for every number of tasks and requests: a       *)
(* response reaches the request it answers, and the end of the stream      *)
(* strands nobody.                                                         *)
(***************************************************************************)
EXTENDS Connection, TLAPS

(* The writer lock excludes, and a request under way has a number. *)
LockInv ==
    /\ \A c \in Caller : stage[c] \in {"locked", "writing"} <=> writer = c
    /\ \A c \in Caller : stage[c] # "idle" => issued[c] # 0

(* 1 while a sender is queued and its frame not yet written. *)
Unwritten == IF \E c \in Caller : stage[c] = "writing" THEN 1 ELSE 0

(* The oldest senders are those of the responses under way, in order; the  *)
(* next ones, while the daemon serves, those of the frames it has not      *)
(* read; the last one is that of the frame being written.                  *)
Aligned ==
    /\ Len(back) + Unwritten <= Len(pending)
    /\ \A i \in DOMAIN back : pending[i] = back[i]
    /\ daemon \in {"serving", "wedged"} =>
         /\ Len(pending) = Len(back) + Len(wire) + Unwritten
         /\ \A i \in DOMAIN wire : pending[Len(back) + i] = wire[i]

PairInv ==
    torn = 0 =>
        /\ \A c \in Caller : slot[c] # <<>> => slot[c][1] \in {Current(c), Aborted}
        /\ reader = "reading" => Aligned

(* The frame being written has the newest sender of all.  A request that   *)
(* has no answer yet has its sender in the queue; once the reader has      *)
(* cleared the queue after the end of the stream, every request that was   *)
(* written has an answer.                                                  *)
QueuedInv ==
    /\ \A c \in Caller : stage[c] = "writing" /\ pending # <<>> =>
                            pending[Len(pending)] = Current(c)
    /\ \A c \in Caller : stage[c] \in {"writing", "waiting"} /\ slot[c] = <<>> =>
                            \E i \in DOMAIN pending : pending[i] = Current(c)
    /\ reader = "eof" => daemon = "closed"
    /\ reader = "eof" /\ "reader" \notin clearing =>
         \A c \in Caller : stage[c] = "waiting" => slot[c] # <<>>

ConnectionInv == ConnectionTypeOK /\ LockInv /\ PairInv /\ QueuedInv
LEMMA BeginKeeps ==
  ASSUME ConnectionInv, NEW c \in Caller, Begin(c)
  PROVE  ConnectionInv'
<1> USE ConnectionAssumption DEF ConnectionInv, Begin, ends
<1>1. ConnectionTypeOK'
  BY DEF ConnectionTypeOK
<1>2. LockInv'
  BY DEF ConnectionTypeOK, LockInv
<1>3. PairInv'
  BY DEF ConnectionTypeOK, PairInv, Aligned, Unwritten, Current
<1>4. QueuedInv'
  BY DEF ConnectionTypeOK, QueuedInv, Current
<1> QED BY <1>1, <1>2, <1>3, <1>4

LEMMA LockKeeps ==
  ASSUME ConnectionInv, NEW c \in Caller, Lock(c)
  PROVE  ConnectionInv'
<1> USE ConnectionAssumption DEF ConnectionInv
<1>1. /\ stage[c] = "admitted" /\ writer = Free
      /\ UNCHANGED <<issued, slot, pending, wire, back, ends, torn>>
  BY DEF Lock, LockIsFree
<1>2. /\ stage \in [Caller -> {"idle", "admitted", "locked", "writing", "waiting"}]
      /\ \A d \in Caller : stage[d] \notin {"locked", "writing"}
  BY <1>1 DEF ConnectionTypeOK, LockInv, Free
<1>3. PICK s \in {"idle", "locked"} :
        /\ stage' = [stage EXCEPT ![c] = s]
        /\ writer' = IF s = "locked" THEN c ELSE Free
  BY <1>1 DEF Lock
<1>4. /\ stage'[c] = s /\ \A d \in Caller \ {c} : stage'[d] = stage[d]
      /\ \A d \in Caller : Current(d)' = Current(d)
  BY <1>1, <1>2, <1>3 DEF Current
<1>5. ConnectionTypeOK'
  BY <1>1, <1>2, <1>3 DEF ConnectionTypeOK, ends
<1>6. LockInv'
  BY <1>1, <1>2, <1>3, <1>4 DEF LockInv, Free
<1>7. Unwritten' = Unwritten
  BY <1>1, <1>2, <1>3, <1>4 DEF Unwritten
<1>8. PairInv'
  BY <1>1, <1>4, <1>7 DEF PairInv, Aligned, ends
<1>9. QueuedInv'
  BY <1>1, <1>4 DEF QueuedInv, ends
<1> QED BY <1>5, <1>6, <1>8, <1>9

LEMMA PushKeeps ==
  ASSUME ConnectionInv, NEW c \in Caller, Push(c)
  PROVE  ConnectionInv'
<1> USE ConnectionAssumption DEF ConnectionInv, Push, ends
<1>1. ConnectionTypeOK'
  BY DEF ConnectionTypeOK, Request, Current, LockInv
<1>2. LockInv'
  BY DEF ConnectionTypeOK, LockInv, Free
<1>3. PairInv'
  BY DEF ConnectionTypeOK, LockInv, PairInv, QueuedInv, Aligned, Unwritten, Current, Free
<1>4. /\ pending' = Append(pending, Current(c)) /\ pending \in Seq(Request)
      /\ Current(c) \in Request /\ stage'[c] = "writing"
      /\ \A d \in Caller : Current(d)' = Current(d)
      /\ \A d \in Caller \ {c} : stage[d] # "writing" /\ stage'[d] = stage[d]
      /\ UNCHANGED <<slot, reader, clearing, daemon>>
  BY DEF ConnectionTypeOK, Request, LockInv, Current
<1>5. /\ pending'[Len(pending')] = Current(c) /\ Len(pending') \in DOMAIN pending'
      /\ \A i \in DOMAIN pending : i \in DOMAIN pending' /\ pending'[i] = pending[i]
  BY <1>4
<1>6. QueuedInv'
  <2> USE <1>4, <1>5
  <2> HIDE DEF Push, ConnectionInv
  <2>1. QueuedInv
    BY DEF ConnectionInv
  <2>2. \A d \in Caller : stage'[d] = "writing" => d = c
    OBVIOUS
  <2>3. \A d \in Caller : stage'[d] \in {"writing", "waiting"} /\ slot'[d] = <<>> =>
                            \E i \in DOMAIN pending' : pending'[i] = Current(d)'
    BY <2>1 DEF QueuedInv
  <2>4. \A d \in Caller : stage'[d] = "waiting" => stage[d] = "waiting"
    OBVIOUS
  <2> QED BY <2>1, <2>2, <2>3, <2>4 DEF QueuedInv
<1> QED BY <1>1, <1>2, <1>3, <1>6

LEMMA WriteFrameKeeps ==
  ASSUME ConnectionInv, NEW c \in Caller, WriteFrame(c)
  PROVE  ConnectionInv'
<1> USE ConnectionAssumption DEF ConnectionInv, WriteFrame, ends, Unlocked
<1>1. ConnectionTypeOK'
  BY DEF ConnectionTypeOK, Request, Current, LockInv, Free
<1>2. LockInv'
  BY DEF ConnectionTypeOK, LockInv, Free
<1>3. PairInv'
  BY DEF ConnectionTypeOK, LockInv, PairInv, QueuedInv, Aligned, Unwritten, Current, Free
<1>4. QueuedInv'
  BY DEF ConnectionTypeOK, LockInv, QueuedInv, Current, Free
<1> QED BY <1>1, <1>2, <1>3, <1>4

LEMMA WriteFailsKeeps ==
  ASSUME ConnectionInv, NEW c \in Caller, WriteFails(c)
  PROVE  ConnectionInv'
<1> USE ConnectionAssumption DEF ConnectionInv, WriteFails, ends, Unlocked
<1>1. ConnectionTypeOK'
  BY DEF ConnectionTypeOK, Free
<1>2. LockInv'
  BY DEF ConnectionTypeOK, LockInv, Free
<1>3. PairInv'
  BY DEF ConnectionTypeOK, LockInv, PairInv, QueuedInv, Aligned, Unwritten, Current, Free
<1>4. /\ pending \in Seq(Request)
      /\ stage'[c] = "idle"
      /\ \A d \in Caller : Current(d)' = Current(d) /\ Current(d).caller = d
      /\ \A d \in Caller \ {c} : stage[d] # "writing" /\ stage'[d] = stage[d]
      /\ pending # <<>> => pending[Len(pending)] = Current(c)
      /\ UNCHANGED <<slot, reader, clearing, daemon>>
  BY DEF ConnectionTypeOK, LockInv, Current, QueuedInv
<1>5. \A i \in DOMAIN pending : \/ i = Len(pending)
                                \/ i \in DOMAIN pending' /\ pending'[i] = pending[i]
  BY <1>4
<1>6. QueuedInv'
  <2> USE <1>4, <1>5
  <2> HIDE DEF WriteFails, ConnectionInv
  <2>1. QueuedInv
    BY DEF ConnectionInv
  <2>2. \A d \in Caller : stage'[d] # "writing"
    OBVIOUS
  <2>3. ASSUME NEW d \in Caller, stage'[d] \in {"writing", "waiting"}, slot'[d] = <<>>
        PROVE  \E i \in DOMAIN pending' : pending'[i] = Current(d)'
    <3>1. d # c /\ Current(d) # Current(c)
      BY <2>3
    <3>2. PICK i \in DOMAIN pending : pending[i] = Current(d)
      BY <2>1, <2>3, <3>1 DEF QueuedInv
    <3>3. pending # <<>>
      BY <3>2
    <3> QED BY <3>1, <3>2, <3>3
  <2>4. \A d \in Caller : stage'[d] = "waiting" => stage[d] = "waiting"
    OBVIOUS
  <2> QED BY <2>1, <2>2, <2>3, <2>4 DEF QueuedInv
<1> QED BY <1>1, <1>2, <1>3, <1>6

LEMMA ReturnKeeps ==
  ASSUME ConnectionInv, NEW c \in Caller, Return(c)
  PROVE  ConnectionInv'
<1> USE ConnectionAssumption DEF ConnectionInv, Return, ends
<1>1. ConnectionTypeOK'
  BY DEF ConnectionTypeOK
<1>2. LockInv'
  BY DEF ConnectionTypeOK, LockInv
<1>3. PairInv'
  BY DEF ConnectionTypeOK, PairInv, Aligned, Unwritten, Current
<1>4. QueuedInv'
  BY DEF ConnectionTypeOK, QueuedInv, Current
<1> QED BY <1>1, <1>2, <1>3, <1>4

LEMMA CancelKeeps ==
  ASSUME ConnectionInv, NEW c \in Caller, Cancel(c)
  PROVE  ConnectionInv'
<1> USE ConnectionAssumption DEF ConnectionInv, Cancel, ends
<1>1. ConnectionTypeOK'
  BY DEF ConnectionTypeOK
<1>2. LockInv'
  BY DEF ConnectionTypeOK, LockInv
<1>3. PairInv'
  BY DEF ConnectionTypeOK, PairInv, Aligned, Unwritten, Current
<1>4. QueuedInv'
  BY DEF ConnectionTypeOK, QueuedInv, Current
<1> QED BY <1>1, <1>2, <1>3, <1>4

LEMMA CancelWriteKeeps ==
  ASSUME ConnectionInv, NEW c \in Caller, CancelWrite(c)
  PROVE  ConnectionInv'
<1> USE ConnectionAssumption DEF ConnectionInv, CancelWrite, ends, Unlocked
<1>1. ConnectionTypeOK'
  <2>1. wire' \in Seq(Request \cup {Torn})
    <3>1. wire \in Seq(Request \cup {Torn}) /\ Torn \in Request \cup {Torn}
      BY DEF ConnectionTypeOK
    <3>2. wire' = wire \/ wire' = Append(wire, Torn)
      OBVIOUS
    <3> QED BY <3>1, <3>2
  <2>2. torn' \in 0..MaxTorn /\ writer' \in Caller \cup {Free}
    BY DEF ConnectionTypeOK, Free
  <2> QED BY <2>1, <2>2 DEF ConnectionTypeOK
<1>2. LockInv'
  BY DEF ConnectionTypeOK, LockInv, Free
<1>3. PairInv'
  BY DEF ConnectionTypeOK, PairInv
<1>4. QueuedInv'
  BY DEF ConnectionTypeOK, LockInv, QueuedInv, Current, Free
<1> QED BY <1>1, <1>2, <1>3, <1>4

LEMMA ServeKeeps ==
  ASSUME ConnectionInv, Serve
  PROVE  ConnectionInv'
<1> USE ConnectionAssumption DEF ConnectionInv, Serve, ends
<1>1. ConnectionTypeOK'
  BY DEF ConnectionTypeOK
<1>2. LockInv'
  BY DEF LockInv
<1>3. /\ wire \in Seq(Request \cup {Torn}) /\ wire # <<>> /\ wire' = Tail(wire)
      /\ back \in Seq(Request) /\ back' = Append(back, wire[1]) /\ wire[1] \in Request
      /\ UNCHANGED <<pending, slot, daemon, reader, torn>> /\ daemon = "serving"
      /\ \A c \in Caller : Current(c)' = Current(c)
      /\ Unwritten' = Unwritten /\ Unwritten \in {0, 1}
  BY DEF ConnectionTypeOK, Current, Unwritten
<1>4. Aligned => Aligned'
  <2> SUFFICES ASSUME Aligned PROVE Aligned'
    OBVIOUS
  <2> USE DEF Aligned
  <2>1. /\ Len(back') = Len(back) + 1 /\ Len(wire') = Len(wire) - 1
        /\ DOMAIN back' = DOMAIN back \cup {Len(back) + 1}
        /\ back'[Len(back) + 1] = wire[1] /\ 1 \in DOMAIN wire
        /\ \A i \in DOMAIN back : back'[i] = back[i]
        /\ \A i \in DOMAIN wire' : i + 1 \in DOMAIN wire /\ wire'[i] = wire[i + 1]
        /\ Len(back) \in Nat /\ Len(wire) \in Nat
    BY <1>3
  <2>2. pending[Len(back) + 1] = wire[1]
    BY <1>3, <2>1
  <2>3. Len(pending) = Len(back) + Len(wire) + Unwritten
    BY <1>3
  <2>4. \A i \in DOMAIN back' : pending'[i] = back'[i]
    BY <1>3, <2>1, <2>2
  <2>5. \A i \in DOMAIN wire' : pending'[Len(back') + i] = wire'[i]
    <3> SUFFICES ASSUME NEW i \in DOMAIN wire' PROVE pending[Len(back') + i] = wire'[i]
      BY <1>3
    <3>1. i \in Nat
      BY <1>3
    <3>2. Len(back') + i = Len(back) + (i + 1)
      BY <2>1, <3>1
    <3> QED BY <1>3, <2>1, <3>2
  <2> QED BY <1>3, <2>1, <2>3, <2>4, <2>5
<1>5. PairInv'
  BY <1>3, <1>4 DEF PairInv
<1>6. QueuedInv'
  BY <1>3 DEF QueuedInv
<1> QED BY <1>1, <1>2, <1>5, <1>6

LEMMA ServeOversizedKeeps ==
  ASSUME ConnectionInv, ServeOversized
  PROVE  ConnectionInv'
<1> USE ConnectionAssumption DEF ConnectionInv, ServeOversized, ends
<1>1. ConnectionTypeOK'
  BY DEF ConnectionTypeOK
<1>2. LockInv'
  BY DEF LockInv
<1>3. PairInv'
  BY DEF ConnectionTypeOK, PairInv, Aligned, Unwritten, Current
<1>4. QueuedInv'
  BY DEF QueuedInv, Current
<1> QED BY <1>1, <1>2, <1>3, <1>4

LEMMA CloseKeeps ==
  ASSUME ConnectionInv, Close
  PROVE  ConnectionInv'
<1> USE ConnectionAssumption DEF ConnectionInv, Close, ends
<1>1. ConnectionTypeOK'
  BY DEF ConnectionTypeOK
<1>2. LockInv'
  BY DEF LockInv
<1>3. PairInv'
  BY DEF ConnectionTypeOK, PairInv, Aligned, Unwritten, Current
<1>4. QueuedInv'
  BY DEF QueuedInv, Current
<1> QED BY <1>1, <1>2, <1>3, <1>4

LEMMA WedgeKeeps ==
  ASSUME ConnectionInv, Wedge
  PROVE  ConnectionInv'
<1> USE ConnectionAssumption DEF ConnectionInv, Wedge, ends
<1>1. ConnectionTypeOK'
  BY DEF ConnectionTypeOK
<1>2. LockInv'
  BY DEF LockInv
<1>3. PairInv'
  BY DEF ConnectionTypeOK, PairInv, Aligned, Unwritten, Current
<1>4. QueuedInv'
  BY DEF QueuedInv, Current
<1> QED BY <1>1, <1>2, <1>3, <1>4

LEMMA ReadResponseKeeps ==
  ASSUME ConnectionInv, ReadResponse
  PROVE  ConnectionInv'
<1>1. /\ ConnectionTypeOK /\ LockInv /\ PairInv /\ QueuedInv
      /\ reader = "reading" /\ back # <<>> /\ back' = Tail(back)
      /\ UNCHANGED <<stage, issued, writer, wire, daemon, closed, clearing, reader, torn>>
  BY DEF ConnectionInv, ReadResponse, ends
<1>2. back \in Seq(Request) /\ pending \in Seq(Request)
      /\ slot \in [Caller -> {<<>>} \cup {<<r>> : r \in Request \cup {Aborted}}]
  BY <1>1 DEF ConnectionTypeOK
<1>3. /\ back' \in Seq(Request) /\ Len(back') = Len(back) - 1
      /\ back[1] \in Request /\ Head(back) = back[1] /\ 1 \in DOMAIN back
      /\ \A i \in DOMAIN back' : i \in Nat /\ i + 1 \in DOMAIN back /\ back'[i] = back[i + 1]
  BY <1>1, <1>2
<1>4. \A c \in Caller : Current(c)' = Current(c)
  BY <1>1 DEF Current
<1>5. LockInv' /\ Unwritten' = Unwritten /\ Unwritten \in {0, 1}
  BY <1>1 DEF LockInv, Unwritten
<1>6. CASE pending = <<>>
  <2>1. pending' = pending /\ slot' = slot
    BY <1>6 DEF ReadResponse
  <2>2. ConnectionTypeOK'
    BY <1>1, <1>3, <2>1 DEF ConnectionTypeOK
  <2>3. ~ Aligned
    BY <1>3, <1>5, <1>2, <1>6 DEF Aligned
  <2>4. PairInv'
    BY <1>1, <1>4, <2>1, <2>3 DEF PairInv
  <2>5. QueuedInv'
    BY <1>1, <1>4, <2>1 DEF QueuedInv
  <2> QED BY <1>5, <2>2, <2>4, <2>5 DEF ConnectionInv
<1>7. CASE pending # <<>>
  <2> DEFINE p == pending[1]
  <2>1. /\ pending' = Tail(pending) /\ p \in Request /\ p.caller \in Caller
        /\ slot' = IF Awaits(p) THEN [slot EXCEPT ![p.caller] = <<back[1]>>] ELSE slot
    <3>1. Head(pending) = p /\ p \in Request
      BY <1>2, <1>7
    <3>2. p.caller \in Caller
      BY <3>1 DEF Request
    <3> QED BY <1>3, <1>7, <3>1, <3>2 DEF ReadResponse
  <2>2. /\ pending' \in Seq(Request) /\ Len(pending') = Len(pending) - 1
        /\ \A i \in DOMAIN pending' : i \in Nat /\ i + 1 \in DOMAIN pending
                                      /\ pending'[i] = pending[i + 1]
        /\ \A i \in DOMAIN pending : i = 1 \/ (i - 1 \in DOMAIN pending'
                                               /\ pending'[i - 1] = pending[i])
    BY <1>2, <1>7, <2>1
  <2> HIDE DEF p
  <2>3. slot' \in [Caller -> {<<>>} \cup {<<r>> : r \in Request \cup {Aborted}}]
    BY <1>2, <1>3, <2>1
  <2>4. ConnectionTypeOK'
    BY <1>1, <1>3, <2>2, <2>3 DEF ConnectionTypeOK
  <2>5. \A c \in Caller : \/ slot'[c] = slot[c]
                          \/ slot'[c] = <<back[1]>> /\ p = Current(c)
    BY <1>2, <2>1 DEF Awaits
  <2>6. PairInv'
    <3> SUFFICES ASSUME torn = 0 PROVE PairInv'
      BY <1>1 DEF PairInv
    <3>1. Aligned
      BY <1>1 DEF PairInv
    <3>2. p = back[1]
      BY <1>3, <3>1 DEF Aligned, p
    <3>3. Aligned'
      <4>1. Len(back') + Unwritten <= Len(pending')
        BY <1>2, <1>3, <1>5, <2>2, <3>1 DEF Aligned
      <4>2. \A i \in DOMAIN back' : pending'[i] = back'[i]
        <5> SUFFICES ASSUME NEW i \in DOMAIN back' PROVE pending'[i] = back'[i]
          OBVIOUS
        <5>1. i \in DOMAIN pending'
          BY <1>2, <1>3, <1>5, <2>2, <4>1
        <5> QED BY <1>3, <2>2, <3>1, <5>1 DEF Aligned
      <4>3. ASSUME daemon \in {"serving", "wedged"}
            PROVE  /\ Len(pending') = Len(back') + Len(wire) + Unwritten
                   /\ \A i \in DOMAIN wire : pending'[Len(back') + i] = wire[i]
        <5>1. Len(pending') = Len(back') + Len(wire) + Unwritten
          BY <1>1, <1>2, <1>3, <1>5, <2>2, <3>1, <4>3 DEF Aligned, ConnectionTypeOK
        <5> SUFFICES ASSUME NEW i \in DOMAIN wire PROVE pending'[Len(back') + i] = wire[i]
          BY <5>1
        <5>2. wire \in Seq(Request \cup {Torn}) /\ i \in 1..Len(wire)
          BY <1>1 DEF ConnectionTypeOK
        <5>3. Len(back') + i \in DOMAIN pending' /\ (Len(back') + i) + 1 = Len(back) + i
          <6>1. /\ Len(back') \in Nat /\ Len(back) \in Nat /\ Len(wire) \in Nat /\ Unwritten \in Nat
                /\ DOMAIN pending' = 1..Len(pending')
            BY <1>2, <1>3, <1>5, <2>2, <5>2
          <6> QED BY <1>3, <5>1, <5>2, <6>1
        <5> QED BY <2>2, <3>1, <4>3, <5>3 DEF Aligned
      <4> QED BY <1>1, <1>5, <4>1, <4>2, <4>3 DEF Aligned
    <3>4. \A c \in Caller : slot'[c] # <<>> => slot'[c][1] \in {Current(c), Aborted}
      BY <1>1, <2>5, <3>2 DEF PairInv
    <3> QED BY <1>1, <1>4, <3>3, <3>4 DEF PairInv
  <2>7. QueuedInv'
    <3>1. \A c \in Caller : stage[c] = "writing" /\ pending' # <<>> =>
                               pending'[Len(pending')] = Current(c)
      BY <1>1, <1>2, <1>7, <2>2 DEF QueuedInv
    <3>2. ASSUME NEW c \in Caller, stage[c] \in {"writing", "waiting"}, slot'[c] = <<>>
          PROVE  \E i \in DOMAIN pending' : pending'[i] = Current(c)
      <4>1. slot[c] = <<>>
        BY <2>5, <3>2
      <4>2. PICK i \in DOMAIN pending : pending[i] = Current(c)
        BY <1>1, <3>2, <4>1 DEF QueuedInv
      <4>3. i # 1
        <5> SUFFICES ASSUME i = 1 PROVE FALSE
          OBVIOUS
        <5>1. p = Current(c) /\ p.caller = c
          BY <4>2 DEF p, Current
        <5>2. Awaits(p)
          BY <3>2, <5>1 DEF Awaits
        <5> QED BY <1>2, <2>1, <3>2, <5>1, <5>2
      <4> QED BY <2>2, <4>2, <4>3
    <3> QED BY <1>1, <1>4, <3>1, <3>2 DEF QueuedInv
  <2> QED BY <1>5, <2>4, <2>6, <2>7 DEF ConnectionInv
<1> QED BY <1>6, <1>7

LEMMA MarkDeadKeeps ==
  ASSUME ConnectionInv, NEW who \in {"reader", "sweep"}, MarkDead(who)
  PROVE  ConnectionInv'
<1> USE ConnectionAssumption DEF ConnectionInv, MarkDead, ends
<1>1. ConnectionTypeOK'
  BY DEF ConnectionTypeOK
<1>2. LockInv'
  BY DEF LockInv
<1>3. PairInv'
  BY DEF ConnectionTypeOK, PairInv, Aligned, Unwritten, Current
<1>4. QueuedInv'
  BY DEF QueuedInv, Current
<1> QED BY <1>1, <1>2, <1>3, <1>4

LEMMA ClearKeeps ==
  ASSUME ConnectionInv, NEW who \in {"reader", "sweep"}, Clear(who)
  PROVE  ConnectionInv'
<1>1. /\ ConnectionTypeOK /\ LockInv /\ PairInv /\ QueuedInv
      /\ clearing' = clearing \ {who} /\ pending' = <<>>
      /\ slot' = [c \in Caller |-> IF Drained(c) THEN <<Aborted>> ELSE slot[c]]
      /\ reader' = IF reader = "reading" THEN "aborted" ELSE reader
      /\ UNCHANGED <<stage, issued, writer, wire, back, daemon, closed, torn>>
  BY DEF ConnectionInv, Clear
<1>2. \A c \in Caller : Current(c)' = Current(c)
  BY <1>1 DEF Current
<1>3. slot \in [Caller -> {<<>>} \cup {<<r>> : r \in Request \cup {Aborted}}]
  BY <1>1 DEF ConnectionTypeOK
<1>4. \A c \in Caller : slot'[c] = <<Aborted>> \/ slot'[c] = slot[c]
  BY <1>1
<1>5. slot' \in [Caller -> {<<>>} \cup {<<r>> : r \in Request \cup {Aborted}}]
  BY <1>1, <1>3
<1>6. ConnectionTypeOK'
  BY <1>1, <1>5 DEF ConnectionTypeOK
<1>7. LockInv'
  BY <1>1 DEF LockInv
<1>8. PairInv'
  BY <1>1, <1>2, <1>4 DEF PairInv
<1>9. ASSUME NEW c \in Caller, stage[c] \in {"writing", "waiting"}
      PROVE  slot'[c] # <<>>
  <2>1. CASE slot[c] = <<>>
    <3>1. PICK i \in DOMAIN pending : pending[i] = Current(c)
      BY <1>1, <1>9, <2>1 DEF QueuedInv
    <3>2. Drained(c)
      BY <1>9, <3>1 DEF Drained, Awaits, Current
    <3> QED BY <1>1, <3>2
  <2>2. CASE slot[c] # <<>>
    BY <1>4, <2>2
  <2> QED BY <2>1, <2>2
<1>10. QueuedInv'
  BY <1>1, <1>9 DEF QueuedInv, ConnectionTypeOK
<1> QED BY <1>6, <1>7, <1>8, <1>10 DEF ConnectionInv

(* The invariant of the connection holds throughout. *)
LEMMA ConnectionInvariance == ConnectionSpec => []ConnectionInv
<1>1. ConnectionInit => ConnectionInv
  <2> SUFFICES ASSUME ConnectionInit PROVE ConnectionInv
    OBVIOUS
  <2> USE ConnectionAssumption DEF ConnectionInit
  <2>1. ConnectionTypeOK
    <3>1. <<>> \in Seq(Request) /\ <<>> \in Seq(Request \cup {Torn})
      OBVIOUS
    <3>2. 0 \in 0..MaxRequests /\ 0 \in 0..MaxTorn
      OBVIOUS
    <3>3. slot \in [Caller -> {<<>>} \cup {<<r>> : r \in Request \cup {Aborted}}]
      OBVIOUS
    <3> QED BY <3>1, <3>2, <3>3, Zenon DEF ConnectionTypeOK
  <2>2. LockInv
    BY DEF LockInv, Free
  <2>3. PairInv
    BY DEF PairInv, Aligned, Unwritten
  <2>4. QueuedInv
    BY DEF QueuedInv
  <2> QED BY <2>1, <2>2, <2>3, <2>4 DEF ConnectionInv
<1>2. ConnectionInv /\ [ConnectionNext]_connectionVars => ConnectionInv'
  <2> SUFFICES ASSUME ConnectionInv, [ConnectionNext]_connectionVars PROVE ConnectionInv'
    OBVIOUS
  <2>1. CASE \E c \in Caller : \/ Begin(c) \/ Lock(c) \/ Push(c)
                               \/ WriteFrame(c) \/ WriteFails(c) \/ Return(c)
                               \/ Cancel(c) \/ CancelWrite(c)
    BY <2>1, BeginKeeps, LockKeeps, PushKeeps, WriteFrameKeeps, WriteFailsKeeps,
       ReturnKeeps, CancelKeeps, CancelWriteKeeps
  <2>2. CASE Serve \/ ServeOversized \/ Close \/ Wedge
    BY <2>2, ServeKeeps, ServeOversizedKeeps, CloseKeeps, WedgeKeeps
  <2>3. CASE ReadResponse
    BY <2>3, ReadResponseKeeps
  <2>4. CASE \E who \in {"reader", "sweep"} : MarkDead(who) \/ Clear(who)
    BY <2>4, MarkDeadKeeps, ClearKeeps
  <2>5. CASE UNCHANGED connectionVars
    BY <2>5 DEF connectionVars, ConnectionInv, ConnectionTypeOK, LockInv, PairInv, Aligned,
                Unwritten, QueuedInv, Current
  <2> QED BY <2>1, <2>2, <2>3, <2>4, <2>5 DEF ConnectionNext
<1> QED BY <1>1, <1>2, PTL DEF ConnectionSpec

(* For every number of tasks and requests: a response reaches the request  *)
(* it answers, as long as no caller gives up inside its write.             *)
THEOREM ResponsesAlwaysPair == ConnectionSpec => []ResponsesPair
<1>1. ConnectionInv => ResponsesPair
  BY DEF ConnectionInv, PairInv, ResponsesPair
<1> QED BY <1>1, ConnectionInvariance, PTL

(* For every number of tasks and requests, and also when callers give up   *)
(* inside their writes: once the reader has cleared the queue after the    *)
(* end of the stream, no request that was written waits for ever.          *)
THEOREM EofNeverStrands == ConnectionSpec => []EofStrandsNobody
<1>1. ConnectionInv => EofStrandsNobody
  BY DEF ConnectionInv, QueuedInv, EofStrandsNobody
<1> QED BY <1>1, ConnectionInvariance, PTL
=============================================================================
