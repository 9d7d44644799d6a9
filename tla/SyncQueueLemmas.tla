-------------------------- MODULE SyncQueueLemmas --------------------------
(***************************************************************************)
(* What the queue, the batches and the commands of the sync engine hold,   *)
(* when entries, batches and commands are put into them and taken out; the *)
(* invariant of the engine, and its preservation by every step other than  *)
(* a send and a drain.                                                     *)
(***************************************************************************)
EXTENDS SyncQueue, TLAPS

(* What a batch, or a send command, hands over. *)
Of(b) == To(b.peer, b.entries)

(* No two batches of a sequence hand over the same thing. *)
Apart(s) == \A i, j \in DOMAIN s : i # j => Of(s[i]) \cap Of(s[j]) = {}

SendsApart(cs) ==
    \A i, j \in {i \in DOMAIN cs : cs[i].kind = "send"} :
        i # j => Of(cs[i]) \cap Of(cs[j]) = {}

(* A batch counts the failed sends of what is in it, and is not given up. *)
Counts(f, b) ==
    /\ b.attempts \in 1..(MaxAttempts - 1)
    /\ \A h \in Of(b) : f[h] = b.attempts

Counted(f, s) == \A i \in DOMAIN s : Counts(f, s[i])
-----------------------------------------------------------------------------
(* What is handed over by sequences of entries and of batches.              *)

LEMMA ToElements ==
    ASSUME NEW p, NEW es \in Seq(Items)
    PROVE  /\ To(p, es) = {p} \X Elements(es)
           /\ Elements(es) \subseteq Items
  BY DEF To, Elements

LEMMA ToEmpty == \A p : To(p, <<>>) = {}
  BY DEF To

LEMMA ToAppend ==
    ASSUME NEW p, NEW es \in Seq(Items), NEW x \in Items
    PROVE  To(p, Append(es, x)) = To(p, es) \cup {<<p, x>>}
<1>1. /\ DOMAIN Append(es, x) = (DOMAIN es) \cup {Len(es) + 1}
      /\ \A i \in DOMAIN es : Append(es, x)[i] = es[i]
      /\ Append(es, x)[Len(es) + 1] = x
  OBVIOUS
<1> QED BY <1>1, Zenon DEF To

(* Taking out one entry takes out what it hands over and nothing else. *)
LEMMA ToWithout ==
    ASSUME NEW p, NEW es \in Seq(Items), NEW i \in DOMAIN es
    PROVE  /\ Without(es, i) \in Seq(Items)
           /\ To(p, Without(es, i)) \subseteq To(p, es)
           /\ To(p, es) \subseteq To(p, Without(es, i)) \cup {<<p, es[i]>>}
<1> DEFINE n == Len(es)
           r == Without(es, i)
<1>1. n \in Nat /\ i \in 1..n /\ DOMAIN es = 1..n /\ \A k \in 1..n : es[k] \in Items
  OBVIOUS
<1>4. /\ r \in Seq(Items)
      /\ DOMAIN r = 1..(n - 1)
      /\ \A k \in 1..(n - 1) : r[k] = IF k < i THEN es[k] ELSE es[k + 1]
  <2>1. \A k \in 1..(n - 1) : k \in 1..n /\ k + 1 \in 1..n
    BY <1>1
  <2>2. r \in [1..(n - 1) -> Items]
    BY <1>1, <2>1 DEF Without
  <2>3. n - 1 \in Nat
    BY <1>1
  <2>4. DOMAIN r = 1..(n - 1)
        /\ \A k \in 1..(n - 1) : r[k] = IF k < i THEN es[k] ELSE es[k + 1]
    BY Zenon DEF Without
  <2> HIDE DEF r, n
  <2> QED BY <2>2, <2>3, <2>4
<1> HIDE DEF r
<1>5. \A k \in 1..(n - 1) : \E m \in 1..n : r[k] = es[m]
  BY <1>1, <1>4
<1>6. \A m \in 1..n : m # i => \E k \in 1..(n - 1) : r[k] = es[m]
  <2> TAKE m \in 1..n
  <2>1. CASE m < i
    BY <1>1, <1>4, <2>1
  <2>2. CASE m > i
    <3>1. m - 1 \in 1..(n - 1) /\ ~ (m - 1 < i) /\ (m - 1) + 1 = m
      BY <1>1, <2>2
    <3> QED BY <1>4, <3>1
  <2> QED BY <1>1, <2>1, <2>2
<1>7. To(p, r) \subseteq To(p, es)
  BY <1>1, <1>4, <1>5, Zenon DEF To
<1>8. To(p, es) \subseteq To(p, r) \cup {<<p, es[i]>>}
  BY <1>1, <1>4, <1>6, Zenon DEF To
<1> QED BY <1>4, <1>7, <1>8 DEF r

LEMMA InElements ==
    \A s, h : h \in In(s) <=> \E i \in DOMAIN s : h \in Of(s[i])
  BY DEF In, Of

LEMMA InEmpty == In(<<>>) = {} /\ Apart(<<>>)
  BY DEF In, Apart

LEMMA InAppend ==
    ASSUME NEW s \in Seq(Batch), NEW b \in Batch
    PROVE  /\ Append(s, b) \in Seq(Batch)
           /\ In(Append(s, b)) = In(s) \cup Of(b)
           /\ Apart(s) /\ Of(b) \cap In(s) = {} => Apart(Append(s, b))
           /\ \A f : Counted(f, s) /\ Counts(f, b) => Counted(f, Append(s, b))
<1>1. /\ Append(s, b) \in Seq(Batch)
      /\ DOMAIN Append(s, b) = (DOMAIN s) \cup {Len(s) + 1}
      /\ Len(s) + 1 \notin DOMAIN s
      /\ \A i \in DOMAIN s : Append(s, b)[i] = s[i]
      /\ Append(s, b)[Len(s) + 1] = b
  OBVIOUS
<1>2. In(Append(s, b)) = In(s) \cup Of(b)
  BY <1>1, InElements, Zenon
<1>3. ASSUME Apart(s), Of(b) \cap In(s) = {}
      PROVE  Apart(Append(s, b))
  <2>1. \A i \in DOMAIN s : Of(b) \cap Of(s[i]) = {}
    BY <1>3, InElements
  <2> QED BY <1>1, <1>3, <2>1 DEF Apart
<1>4. ASSUME NEW f, Counted(f, s), Counts(f, b)
      PROVE  Counted(f, Append(s, b))
  BY <1>1, <1>4, Zenon DEF Counted
<1> QED BY <1>1, <1>2, <1>3, <1>4

LEMMA InTail ==
    ASSUME NEW s \in Seq(Batch), s # <<>>
    PROVE  /\ Head(s) \in Batch /\ Tail(s) \in Seq(Batch)
           /\ In(s) = Of(Head(s)) \cup In(Tail(s))
           /\ Apart(s) => Apart(Tail(s)) /\ Of(Head(s)) \cap In(Tail(s)) = {}
           /\ \A f : Counted(f, s) => Counted(f, Tail(s)) /\ Counts(f, Head(s))
<1> DEFINE n == Len(s)
           t == Tail(s)
<1>1. /\ n \in Nat \ {0}
      /\ DOMAIN s = 1..n
      /\ Head(s) = s[1] /\ s[1] \in Batch
      /\ t \in Seq(Batch)
      /\ DOMAIN t = 1..(n - 1)
      /\ \A i \in 1..(n - 1) : t[i] = s[i + 1] /\ i + 1 \in 1..n
  OBVIOUS
<1>2. \A i \in 2..n : i - 1 \in 1..(n - 1) /\ t[i - 1] = s[i]
  BY <1>1
<1> HIDE DEF t
<1>3. In(s) = Of(Head(s)) \cup In(t)
  <2>1. \A i \in DOMAIN s : i = 1 \/ i \in 2..n
    BY <1>1
  <2>2. \A h \in In(s) : h \in Of(Head(s)) \cup In(t)
    BY <1>1, <1>2, <2>1, InElements
  <2>3. \A h \in In(t) : h \in In(s)
    BY <1>1, InElements
  <2>4. \A h \in Of(Head(s)) : h \in In(s)
    BY <1>1, InElements
  <2> QED BY <2>2, <2>3, <2>4
<1>4. ASSUME Apart(s)
      PROVE  Apart(t) /\ Of(Head(s)) \cap In(t) = {}
  <2>2. \A i \in 1..(n - 1) : i + 1 # 1 /\ 1 \in 1..n
    BY <1>1
  <2>3. Apart(t)
    <3> SUFFICES ASSUME NEW i \in 1..(n - 1), NEW j \in 1..(n - 1), i # j
                 PROVE  Of(t[i]) \cap Of(t[j]) = {}
      BY <1>1, Zenon DEF Apart
    <3>1. i + 1 \in DOMAIN s /\ j + 1 \in DOMAIN s /\ i + 1 # j + 1
      BY <1>1
    <3> QED BY <1>1, <1>4, <3>1, Zenon DEF Apart
  <2>4. \A i \in DOMAIN t : Of(Head(s)) \cap Of(t[i]) = {}
    BY <1>1, <1>4, <2>2 DEF Apart
  <2> QED BY <2>3, <2>4, InElements
<1>5. ASSUME NEW f, Counted(f, s)
      PROVE  Counted(f, t) /\ Counts(f, Head(s))
  <2>1. 1 \in DOMAIN s
    BY <1>1
  <2> QED BY <1>1, <1>5, <2>1 DEF Counted
<1> QED BY <1>1, <1>3, <1>4, <1>5 DEF t

(* Marking batches, or letting them age, leaves what they hand over. *)
LEMMA InSame ==
    ASSUME NEW s \in Seq(Batch), NEW t \in Seq(Batch), DOMAIN t = DOMAIN s,
           \A i \in DOMAIN s : /\ t[i].peer = s[i].peer
                               /\ t[i].entries = s[i].entries
                               /\ t[i].attempts = s[i].attempts
    PROVE  /\ In(t) = In(s)
           /\ Apart(s) => Apart(t)
           /\ \A f : Counted(f, s) => Counted(f, t)
<1>1. \A i \in DOMAIN s : Of(t[i]) = Of(s[i])
  BY DEF Of
<1>2. In(t) = In(s)
  <2>1. \A h : h \in In(t) <=> h \in In(s)
    BY <1>1, InElements, Zenon
  <2> QED BY <2>1, Zenon
<1>3. Apart(s) => Apart(t)
  BY <1>1, Zenon DEF Apart
<1>4. ASSUME NEW f, Counted(f, s)
      PROVE  Counted(f, t)
  <2> SUFFICES ASSUME NEW i \in DOMAIN s
               PROVE  Counts(f, t[i])
    BY Zenon DEF Counted
  <2>1. Counts(f, s[i])
    BY <1>4 DEF Counted
  <2> QED BY <1>1, <2>1, Zenon DEF Counts
<1> QED BY <1>2, <1>3, <1>4

LEMMA InHandover ==
    /\ \A p \in Peers, es \in Seq(Items) : To(p, es) \subseteq Handover
    /\ \A s \in Seq(Batch) : In(s) \subseteq Handover
<1>1. ASSUME NEW p \in Peers, NEW es \in Seq(Items)
      PROVE  To(p, es) \subseteq Handover
  BY ToElements DEF Handover
<1>2. ASSUME NEW s \in Seq(Batch), NEW h \in In(s)
      PROVE  h \in Handover
  <2>1. PICK i \in DOMAIN s : h \in Of(s[i])
    BY InElements
  <2>2. s[i] \in Batch
    OBVIOUS
  <2>3. s[i].peer \in Peers /\ s[i].entries \in Seq(Items)
    BY <2>2 DEF Batch
  <2> QED BY <1>1, <2>1, <2>3 DEF Of
<1> QED BY <1>1, <1>2

LEMMA SendsElements ==
    \A cs, h : h \in Sends(cs) <=>
                 \E i \in DOMAIN cs : cs[i].kind = "send" /\ h \in Of(cs[i])
  BY DEF Sends, Of

LEMMA SendsEmpty == Sends(<<>>) = {} /\ SendsApart(<<>>)
  BY DEF Sends, SendsApart

LEMMA SendsAppend ==
    ASSUME NEW cs \in Seq(Command), NEW c \in Command
    PROVE  /\ Append(cs, c) \in Seq(Command)
           /\ c.kind = "send" => Sends(Append(cs, c)) = Sends(cs) \cup Of(c)
           /\ c.kind # "send" => Sends(Append(cs, c)) = Sends(cs)
           /\ SendsApart(cs) /\ (c.kind = "send" => Of(c) \cap Sends(cs) = {})
                => SendsApart(Append(cs, c))
<1>1. /\ Append(cs, c) \in Seq(Command)
      /\ DOMAIN Append(cs, c) = (DOMAIN cs) \cup {Len(cs) + 1}
      /\ Len(cs) + 1 \notin DOMAIN cs
      /\ \A i \in DOMAIN cs : Append(cs, c)[i] = cs[i]
      /\ Append(cs, c)[Len(cs) + 1] = c
  OBVIOUS
<1> DEFINE d == Append(cs, c)
<1> HIDE DEF d
<1>a. ASSUME NEW h
      PROVE  h \in Sends(d) <=> h \in Sends(cs) \/ (c.kind = "send" /\ h \in Of(c))
  <2>1. h \in Sends(d) <=> \E i \in DOMAIN d : d[i].kind = "send" /\ h \in Of(d[i])
    BY SendsElements
  <2>2. h \in Sends(cs) <=> \E i \in DOMAIN cs : cs[i].kind = "send" /\ h \in Of(cs[i])
    BY SendsElements
  <2> QED BY <1>1, <2>1, <2>2, Zenon DEF d
<1>2. c.kind = "send" => Sends(d) = Sends(cs) \cup Of(c)
  BY <1>a
<1>3. c.kind # "send" => Sends(d) = Sends(cs)
  BY <1>a, Zenon
<1>4. ASSUME SendsApart(cs), c.kind = "send" => Of(c) \cap Sends(cs) = {}
      PROVE  SendsApart(Append(cs, c))
  <2>1. c.kind = "send" =>
          \A i \in DOMAIN cs : cs[i].kind = "send" => Of(c) \cap Of(cs[i]) = {}
    BY <1>4, SendsElements
  <2> QED BY <1>1, <1>4, <2>1 DEF SendsApart
<1> QED BY <1>1, <1>2, <1>3, <1>4 DEF d

LEMMA SendsTail ==
    ASSUME NEW cs \in Seq(Command), cs # <<>>
    PROVE  /\ Head(cs) \in Command /\ Tail(cs) \in Seq(Command)
           /\ Head(cs).kind # "send" => Sends(cs) = Sends(Tail(cs))
           /\ Head(cs).kind = "send" => Sends(cs) = Of(Head(cs)) \cup Sends(Tail(cs))
           /\ SendsApart(cs) => SendsApart(Tail(cs))
           /\ SendsApart(cs) /\ Head(cs).kind = "send" =>
                Of(Head(cs)) \cap Sends(Tail(cs)) = {}
<1> DEFINE n == Len(cs)
           t == Tail(cs)
<1>1. /\ n \in Nat \ {0}
      /\ DOMAIN cs = 1..n
      /\ Head(cs) = cs[1] /\ cs[1] \in Command
      /\ t \in Seq(Command)
      /\ DOMAIN t = 1..(n - 1)
      /\ \A i \in 1..(n - 1) : t[i] = cs[i + 1] /\ i + 1 \in 1..n
  OBVIOUS
<1>2. \A i \in 2..n : i - 1 \in 1..(n - 1) /\ t[i - 1] = cs[i]
  BY <1>1
<1>3. \A i \in DOMAIN cs : i = 1 \/ i \in 2..n
  BY <1>1
<1>4. 1 \in DOMAIN cs /\ \A i \in 1..(n - 1) : i + 1 # 1
  BY <1>1
<1> HIDE DEF t, n
<1>5. ASSUME NEW h
      PROVE  h \in Sends(cs) <=> \/ Head(cs).kind = "send" /\ h \in Of(Head(cs))
                                 \/ h \in Sends(t)
  <2>1. ASSUME h \in Sends(cs)
        PROVE  (Head(cs).kind = "send" /\ h \in Of(Head(cs))) \/ h \in Sends(t)
    <3>1. PICK i \in DOMAIN cs : cs[i].kind = "send" /\ h \in Of(cs[i])
      BY <2>1, SendsElements
    <3>2. CASE i \in 2..n
      BY <1>1, <1>2, <3>1, <3>2, SendsElements, Zenon
    <3> QED BY <1>1, <1>3, <3>1, <3>2
  <2>2. ASSUME h \in Sends(t)
        PROVE  h \in Sends(cs)
    BY <1>1, <2>2, SendsElements, Zenon
  <2>3. ASSUME Head(cs).kind = "send", h \in Of(Head(cs))
        PROVE  h \in Sends(cs)
    BY <1>1, <1>4, <2>3, SendsElements, Zenon
  <2> QED BY <2>1, <2>2, <2>3
<1>6. ASSUME SendsApart(cs)
      PROVE  SendsApart(t)
  <2> SUFFICES ASSUME NEW i \in DOMAIN t, NEW j \in DOMAIN t, i # j,
                      t[i].kind = "send", t[j].kind = "send"
               PROVE  Of(t[i]) \cap Of(t[j]) = {}
    BY Zenon DEF SendsApart
  <2>1. i + 1 \in DOMAIN cs /\ j + 1 \in DOMAIN cs /\ i + 1 # j + 1
    BY <1>1
  <2> QED BY <1>1, <1>6, <2>1, Zenon DEF SendsApart
<1>7. ASSUME SendsApart(cs), Head(cs).kind = "send"
      PROVE  Of(Head(cs)) \cap Sends(t) = {}
  <2> SUFFICES ASSUME NEW i \in DOMAIN t, t[i].kind = "send"
               PROVE  Of(Head(cs)) \cap Of(t[i]) = {}
    BY SendsElements, Zenon
  <2>1. i + 1 \in DOMAIN cs /\ i + 1 # 1 /\ t[i] = cs[i + 1]
    BY <1>1, <1>4
  <2> QED BY <1>1, <1>4, <1>7, <2>1, Zenon DEF SendsApart
<1> QED BY <1>1, <1>5, <1>6, <1>7, Zenon DEF t

LEMMA WaitingEmpty == EmptyQueue \in [Peers -> Seq(Items)] /\ Waiting(EmptyQueue) = {}
  BY ToEmpty DEF EmptyQueue, Waiting

LEMMA WaitingHandover ==
    ASSUME NEW q \in [Peers -> Seq(Items)]
    PROVE  Waiting(q) \subseteq Handover
  BY InHandover DEF Waiting

(* Replacing what waits for one peer leaves what waits for the others. *)
LEMMA WaitingExcept ==
    ASSUME NEW q \in [Peers -> Seq(Items)], NEW p \in Peers, NEW es \in Seq(Items)
    PROVE  /\ [q EXCEPT ![p] = es] \in [Peers -> Seq(Items)]
           /\ Waiting([q EXCEPT ![p] = es]) = (Waiting(q) \ To(p, q[p])) \cup To(p, es)
<1> DEFINE r == [q EXCEPT ![p] = es]
<1>1. r \in [Peers -> Seq(Items)]
  OBVIOUS
<1>2. r[p] = es /\ \A k \in Peers : k # p => r[k] = q[k]
  OBVIOUS
<1> HIDE DEF r
<1>3. \A k \in Peers : k # p => To(k, q[k]) \cap To(p, q[p]) = {}
  BY DEF To
<1>4. \A h : h \in Waiting(q) <=> \E k \in Peers : h \in To(k, q[k])
  BY DEF Waiting
<1>5. \A h : h \in Waiting(r) <=> \E k \in Peers : h \in To(k, r[k])
  BY DEF Waiting
<1>6. \A h : h \in Waiting(r) <=> h \in (Waiting(q) \ To(p, q[p])) \cup To(p, es)
  BY <1>2, <1>3, <1>4, <1>5, Zenon
<1> QED BY <1>1, <1>6, Zenon DEF r

-----------------------------------------------------------------------------
(* The local variables of a pass are in use in that pass only, and the     *)
(* retry queue is empty while a pass has taken it.                         *)
PassInv ==
    /\ pass.kind \notin {"retry", "flushRetry"} => pass.work = <<>> /\ pass.kept = <<>>
    /\ pass.kind \notin {"drain", "flushDrain"} => pass.batches = EmptyQueue
    /\ pass.kind \in {"retry", "flushRetry"} => retry = <<>>

(* An entry waits in one place of the engine only: in the queue, in a      *)
(* command or in the batches of a drain when it was never sent, in one     *)
(* batch to be sent again when it was.                                     *)
PlaceInv ==
    /\ Apart(retry) /\ Apart(pass.work) /\ Apart(pass.kept)
    /\ In(pass.work) \cap In(pass.kept) = {}
    /\ SendsApart(cmds)
    /\ Waiting(queue) \cap Sends(cmds) = {}
    /\ Waiting(queue) \cap Waiting(pass.batches) = {}
    /\ Sends(cmds) \cap Waiting(pass.batches) = {}
    /\ Pending \subseteq enqueued

(* fails counts: nothing for what was not sent, the attempts of its batch  *)
(* for what is to be sent again, and MaxAttempts for what was given up.    *)
CountInv ==
    /\ Counted(fails, retry) /\ Counted(fails, pass.work) /\ Counted(fails, pass.kept)
    /\ \A h \in Waiting(queue) \cup Sends(cmds) \cup Waiting(pass.batches) : fails[h] = 0
    /\ \A h \in Handover \ enqueued : fails[h] = 0
    /\ \A d \in dropped : d.why = "attempts" => d.to \notin Pending /\ d.to \in enqueued

QueueInv == TypeOK /\ PassInv /\ PlaceInv /\ CountInv /\ NothingLost /\ GiveUpIsEarned
-----------------------------------------------------------------------------
(* A send: what is acknowledged is stored or was refused; what is not      *)
(* stays with the sender, or is given up.                                  *)

LEMMA DroppedGrows ==
    ASSUME TypeOK, NEW hs \in SUBSET Handover, NEW why \in Reasons,
           dropped' = dropped \cup Drop(hs, why)
    PROVE  /\ dropped' \subseteq [to : Handover, why : Reasons]
           /\ Dropped' = Dropped \cup hs
           /\ \A d \in dropped' : d \in dropped \/ (d.why = why /\ d.to \in hs)
<1>1. \A d \in Drop(hs, why) : d \in [to : Handover, why : Reasons] /\ d.why = why /\ d.to \in hs
  BY DEF Drop
<1>2. \A h \in hs : [to |-> h, why |-> why] \in Drop(hs, why)
  BY DEF Drop
<1>3. Dropped' = Dropped \cup {d.to : d \in Drop(hs, why)}
  BY DEF Dropped
<1>4. \A h \in hs : h \in {d.to : d \in Drop(hs, why)}
  <2> TAKE h \in hs
  <2>1. [to |-> h, why |-> why].to = h
    OBVIOUS
  <2> QED BY <1>2, <2>1, Zenon
<1>5. {d.to : d \in Drop(hs, why)} \subseteq hs
  BY <1>1
<1> QED BY <1>1, <1>3, <1>4, <1>5 DEF TypeOK

LEMMA Stores ==
    ASSUME TypeOK, NEW p \in Peers, NEW es \in Seq(Items), NEW stored \in SUBSET Elements(es),
           received' = [received EXCEPT ![p] = @ \cup stored]
    PROVE  /\ received' \in [Peers -> SUBSET Items]
           /\ Delivered \subseteq Delivered'
           /\ {p} \X stored \subseteq Delivered'
<1>1. stored \subseteq Items
  BY ToElements
<1>2. received' \in [Peers -> SUBSET Items]
  <2>1. received \in [Peers -> SUBSET Items]
    BY DEF TypeOK
  <2>2. received[p] \cup stored \in SUBSET Items
    BY <1>1, <2>1
  <2> QED BY <2>1, <2>2
<1>3. \A k \in Peers : received[k] \subseteq received'[k]
  BY DEF TypeOK
<1>4. stored \subseteq received'[p]
  BY DEF TypeOK
<1> QED BY <1>1, <1>2, <1>3, <1>4 DEF Delivered, Handover

LEMMA AckedStep ==
    ASSUME TypeOK, NEW p \in Peers, NEW es \in Seq(Items), Acked(p, es)
    PROVE  /\ received' \in [Peers -> SUBSET Items]
           /\ dropped' \subseteq [to : Handover, why : Reasons]
           /\ fails' = fails
           /\ Delivered \subseteq Delivered'
           /\ Dropped \subseteq Dropped'
           /\ To(p, es) \subseteq (Delivered \cup Dropped)'
           /\ \A d \in dropped' : d.why = "attempts" => d \in dropped
<1>1. PICK stored \in SUBSET Elements(es) :
        /\ received' = [received EXCEPT ![p] = @ \cup stored]
        /\ dropped' = dropped \cup Drop({p} \X (Elements(es) \ stored), "refused")
  BY Zenon DEF Acked
<1>2. To(p, es) = {p} \X Elements(es) /\ Elements(es) \subseteq Items
  BY ToElements
<1>3. /\ received' \in [Peers -> SUBSET Items]
      /\ Delivered \subseteq Delivered'
      /\ {p} \X stored \subseteq Delivered'
  BY <1>1, Stores, Zenon
<1> DEFINE refused == {p} \X (Elements(es) \ stored)
<1>4. refused \in SUBSET Handover
  BY <1>2 DEF Handover
<1>5. dropped' = dropped \cup Drop(refused, "refused")
  BY <1>1
<1> HIDE DEF refused
<1>6. /\ dropped' \subseteq [to : Handover, why : Reasons]
      /\ Dropped' = Dropped \cup refused
      /\ \A d \in dropped' : d \in dropped \/ d.why = "refused"
  <2>1. "refused" \in Reasons
    BY DEF Reasons
  <2> QED BY <1>4, <1>5, <2>1, DroppedGrows, Zenon
<1>7. To(p, es) \subseteq ({p} \X stored) \cup refused
  BY <1>2 DEF refused
<1>8. fails' = fails
  BY DEF Acked
<1>9. \A d \in dropped' : d.why = "attempts" => d \in dropped
  BY <1>6
<1>10. To(p, es) \subseteq Delivered' \cup Dropped'
  BY <1>3, <1>6, <1>7
<1> QED BY <1>3, <1>6, <1>8, <1>9, <1>10

LEMMA UnackedStep ==
    ASSUME TypeOK, NEW p \in Peers, NEW es \in Seq(Items), NEW giveUp \in BOOLEAN,
           Unacked(p, es, giveUp)
    PROVE  /\ received' \in [Peers -> SUBSET Items]
           /\ dropped' \subseteq [to : Handover, why : Reasons]
           /\ fails' \in [Handover -> Nat]
           /\ \A h \in To(p, es) : fails'[h] = fails[h] + 1
           /\ \A h \in Handover \ To(p, es) : fails'[h] = fails[h]
           /\ Delivered \subseteq Delivered'
           /\ Dropped \subseteq Dropped'
           /\ ~ giveUp => dropped' = dropped
           /\ giveUp => To(p, es) \subseteq Dropped'
           /\ \A d \in dropped' : d \in dropped \/ (giveUp /\ d.to \in To(p, es))
<1>1. PICK stored \in SUBSET Elements(es) :
        received' = [received EXCEPT ![p] = @ \cup stored]
  BY Zenon DEF Unacked
<1>2. To(p, es) \in SUBSET Handover
  BY InHandover
<1>3. received' \in [Peers -> SUBSET Items] /\ Delivered \subseteq Delivered'
  BY <1>1, Stores, Zenon
<1>4. /\ fails' \in [Handover -> Nat]
      /\ \A h \in To(p, es) : fails'[h] = fails[h] + 1
      /\ \A h \in Handover \ To(p, es) : fails'[h] = fails[h]
  BY <1>2 DEF Unacked, TypeOK
<1>5. CASE giveUp
  <2>1. dropped' = dropped \cup Drop(To(p, es), "attempts")
    BY <1>5 DEF Unacked
  <2>2. /\ dropped' \subseteq [to : Handover, why : Reasons]
        /\ Dropped' = Dropped \cup To(p, es)
        /\ \A d \in dropped' : d \in dropped \/ d.to \in To(p, es)
    <3>1. "attempts" \in Reasons
      BY DEF Reasons
    <3> QED BY <1>2, <2>1, <3>1, DroppedGrows, Zenon
  <2> QED BY <1>3, <1>4, <1>5, <2>2
<1>6. CASE ~ giveUp
  <2>1. dropped' = dropped
    BY <1>6 DEF Unacked
  <2>2. Dropped' = Dropped
    BY <2>1 DEF Dropped
  <2> QED BY <1>3, <1>4, <1>6, <2>1, <2>2 DEF TypeOK
<1> QED BY <1>5, <1>6

(* A failed send of one batch leaves the counts of the others. *)
LEMMA CountedElsewhere ==
    ASSUME NEW f, NEW g, NEW hs, NEW s \in Seq(Batch), Counted(f, s), In(s) \cap hs = {},
           \A h \in Handover \ hs : g[h] = f[h]
    PROVE  Counted(g, s)
<1> SUFFICES ASSUME NEW i \in DOMAIN s
             PROVE  Counts(g, s[i])
  BY DEF Counted
<1>1. Counts(f, s[i])
  BY DEF Counted
<1>2. Of(s[i]) \subseteq Handover \ hs
  BY InElements, InHandover
<1> QED BY <1>1, <1>2 DEF Counts

(* What waits for its first send is not in a batch that failed. *)
LEMMA NeverSentApart ==
    ASSUME QueueInv
    PROVE  (Waiting(queue) \cup Sends(cmds) \cup Waiting(pass.batches))
             \cap (In(retry) \cup In(pass.work) \cup In(pass.kept)) = {}
<1>1. ASSUME NEW s, Counted(fails, s), NEW h \in In(s)
      PROVE  fails[h] # 0
  <2>1. PICK i \in DOMAIN s : h \in Of(s[i])
    BY InElements
  <2>2. Counts(fails, s[i])
    BY <1>1 DEF Counted
  <2>3. fails[h] \in 1..(MaxAttempts - 1)
    BY <2>1, <2>2 DEF Counts
  <2> QED BY <2>3, QueueAssumption
<1> QED BY <1>1 DEF QueueInv, CountInv
-----------------------------------------------------------------------------
(* Every step of the engine and of its surroundings preserves QueueInv.     *)

LEMMA QueueInvInit == Init => QueueInv
<1> SUFFICES ASSUME Init
             PROVE  QueueInv
  OBVIOUS
<1>1. /\ Waiting(queue) = {} /\ Waiting(pass.batches) = {}
      /\ retry = <<>> /\ pass.work = <<>> /\ pass.kept = <<>> /\ Sends(cmds) = {}
      /\ In(<<>>) = {}
  BY WaitingEmpty, InEmpty, SendsEmpty DEF Init, Idle
<1>2. TypeOK
  BY WaitingEmpty DEF Init, Idle, TypeOK, Pass
<1>3. PassInv
  BY DEF Init, Idle, PassInv
<1>4. Pending = {}
  BY <1>1 DEF Pending
<1>5. PlaceInv
  BY <1>1, <1>4, InEmpty, SendsEmpty DEF Init, PlaceInv
<1>6. CountInv
  BY <1>1 DEF Init, CountInv, Counted
<1>7. NothingLost
  BY DEF Init, NothingLost
<1>8. GiveUpIsEarned
  BY QueueAssumption DEF Init, GiveUpIsEarned
<1> QED BY <1>2, <1>3, <1>5, <1>6, <1>7, <1>8 DEF QueueInv

LEMMA EnqueueInv ==
    ASSUME QueueInv, NEW p \in Peers, NEW x \in Items, Enqueue(p, x)
    PROVE  QueueInv'
<1> USE DEF QueueInv
<1> DEFINE h == <<p, x>>
<1>1. h \in Handover /\ h \notin Pending /\ fails[h] = 0
  BY DEF Enqueue, PlaceInv, CountInv, Handover
<1>2. /\ queue' \in [Peers -> Seq(Items)]
      /\ Waiting(queue') = Waiting(queue) \cup {h}
  <2>1. Append(queue[p], x) \in Seq(Items)
    BY DEF TypeOK
  <2>2. queue' = [queue EXCEPT ![p] = Append(queue[p], x)]
    BY DEF Enqueue
  <2>3. To(p, Append(queue[p], x)) = To(p, queue[p]) \cup {h}
    BY ToAppend DEF TypeOK
  <2>4. To(p, queue[p]) \subseteq Waiting(queue)
    BY DEF Waiting
  <2>5. queue \in [Peers -> Seq(Items)]
    BY DEF TypeOK
  <2>6. /\ queue' \in [Peers -> Seq(Items)]
        /\ Waiting(queue') = (Waiting(queue) \ To(p, queue[p])) \cup To(p, Append(queue[p], x))
    BY <2>1, <2>2, <2>5, WaitingExcept, Zenon
  <2> QED BY <2>3, <2>4, <2>6
<1>3. /\ retry' = retry /\ cmds' = cmds /\ pass' = pass /\ link' = link /\ instance' = instance
      /\ received' = received /\ dropped' = dropped /\ fails' = fails /\ flush' = flush
      /\ enqueued' = enqueued \cup {h}
  BY DEF Enqueue
<1> HIDE DEF h
<1>4. TypeOK'
  BY <1>1, <1>2, <1>3 DEF TypeOK
<1>5. PassInv'
  BY <1>3 DEF PassInv
<1>6. Pending' = Pending \cup {h}
  BY <1>2, <1>3 DEF Pending
<1>7. PlaceInv'
  BY <1>1, <1>2, <1>3, <1>6 DEF PlaceInv, Pending
<1>8. CountInv'
  <2>1. \A d \in dropped : d.why = "attempts" => d.to # h
    BY DEF CountInv, Enqueue, h
  <2> QED BY <1>1, <1>2, <1>3, <1>6, <2>1 DEF CountInv
<1>9. NothingLost'
  BY <1>3, <1>6 DEF NothingLost, Delivered, Dropped
<1>10. GiveUpIsEarned'
  BY <1>3 DEF GiveUpIsEarned
<1> QED BY <1>4, <1>5, <1>7, <1>8, <1>9, <1>10

LEMMA SendEntriesInv ==
    ASSUME QueueInv, NEW p \in Peers, NEW x \in Items, SendEntries(p, x)
    PROVE  QueueInv'
<1> USE DEF QueueInv
<1> DEFINE h == <<p, x>>
           c == [kind |-> "send", peer |-> p, entries |-> <<x>>]
<1>1. h \in Handover /\ h \notin Pending /\ fails[h] = 0
  BY DEF SendEntries, PlaceInv, CountInv, Handover
<1>2. /\ queue' = queue /\ retry' = retry /\ pass' = pass /\ link' = link /\ instance' = instance
      /\ received' = received /\ dropped' = dropped /\ fails' = fails /\ flush' = flush
      /\ enqueued' = enqueued \cup {h}
      /\ cmds' = Append(cmds, c)
  BY DEF SendEntries
<1>3. c \in Command /\ c.kind = "send" /\ Of(c) = {h}
  BY DEF Command, Of, To
<1> HIDE DEF h, c
<1>4. /\ cmds' \in Seq(Command)
      /\ Sends(cmds') = Sends(cmds) \cup {h}
      /\ SendsApart(cmds')
  <2>1. Of(c) \cap Sends(cmds) = {}
    BY <1>1, <1>3 DEF Pending
  <2> QED BY <1>2, <1>3, <2>1, SendsAppend DEF TypeOK, PlaceInv
<1>5. TypeOK'
  BY <1>1, <1>2, <1>4 DEF TypeOK
<1>6. PassInv'
  BY <1>2 DEF PassInv
<1>7. Pending' = Pending \cup {h}
  BY <1>2, <1>4 DEF Pending
<1>8. PlaceInv'
  BY <1>1, <1>2, <1>4, <1>7 DEF PlaceInv, Pending
<1>9. CountInv'
  <2>1. \A d \in dropped : d.why = "attempts" => d.to # h
    BY Zenon DEF CountInv, SendEntries, h
  <2> QED BY <1>1, <1>2, <1>4, <1>7, <2>1 DEF CountInv
<1>10. NothingLost'
  BY <1>2, <1>7 DEF NothingLost, Delivered, Dropped
<1>11. GiveUpIsEarned'
  BY <1>2 DEF GiveUpIsEarned
<1> QED BY <1>5, <1>6, <1>8, <1>9, <1>10, <1>11

LEMMA FlushInvStep ==
    ASSUME QueueInv, Flush
    PROVE  QueueInv'
<1> USE DEF QueueInv
<1> DEFINE c == [kind |-> "flush"]
<1>1. /\ queue' = queue /\ retry' = retry /\ pass' = pass /\ link' = link /\ instance' = instance
      /\ received' = received /\ dropped' = dropped /\ fails' = fails /\ enqueued' = enqueued
      /\ flush' = [state |-> "waiting", mark |-> enqueued]
      /\ cmds' = Append(cmds, c)
  BY DEF Flush
<1>2. c \in Command /\ c.kind # "send"
  BY DEF Command
<1> HIDE DEF c
<1>3. cmds' \in Seq(Command) /\ Sends(cmds') = Sends(cmds) /\ SendsApart(cmds')
  BY <1>1, <1>2, SendsAppend DEF TypeOK, PlaceInv
<1>4. TypeOK'
  BY <1>1, <1>3 DEF TypeOK
<1>5. PassInv'
  BY <1>1 DEF PassInv
<1>6. Pending' = Pending
  BY <1>1, <1>3 DEF Pending
<1>7. PlaceInv'
  BY <1>1, <1>3, <1>6 DEF PlaceInv
<1>8. CountInv'
  BY <1>1, <1>3, <1>6 DEF CountInv
<1>9. NothingLost'
  BY <1>1, <1>6 DEF NothingLost, Delivered, Dropped
<1>10. GiveUpIsEarned'
  BY <1>1 DEF GiveUpIsEarned
<1> QED BY <1>4, <1>5, <1>7, <1>8, <1>9, <1>10

LEMMA IdleFields ==
    /\ Idle \in Pass
    /\ Idle.kind = "select" /\ Idle.work = <<>> /\ Idle.kept = <<>> /\ Idle.batches = EmptyQueue
    /\ In(Idle.work) = {} /\ In(Idle.kept) = {} /\ Waiting(Idle.batches) = {}
    /\ Apart(Idle.work) /\ Apart(Idle.kept)
    /\ \A f : Counted(f, Idle.work) /\ Counted(f, Idle.kept)
  BY WaitingEmpty, InEmpty DEF Idle, Pass, Counted

(* A pass over the retry queue takes every batch in it, marked or not. *)
LEMMA TakeRetries ==
    ASSUME QueueInv, pass.kind = "select", NEW due \in [DOMAIN retry -> BOOLEAN],
           NEW k \in {"retry", "flushRetry"},
           pass' = [Idle EXCEPT !.kind = k,
                                !.work = [i \in DOMAIN retry |-> [retry[i] EXCEPT !.due = due[i]]]]
    PROVE  /\ pass' \in Pass /\ pass'.kind = k /\ pass'.kept = <<>> /\ pass'.batches = EmptyQueue
           /\ In(pass'.work) = In(retry) /\ Apart(pass'.work) /\ Counted(fails, pass'.work)
<1> DEFINE w == [i \in DOMAIN retry |-> [retry[i] EXCEPT !.due = due[i]]]
<1>1. retry \in Seq(Batch) /\ DOMAIN retry = 1..Len(retry) /\ Len(retry) \in Nat
  BY DEF QueueInv, TypeOK
<1>2. DOMAIN w = DOMAIN retry
  OBVIOUS
<1>3. ASSUME NEW i \in DOMAIN retry
      PROVE  /\ w[i] \in Batch
             /\ w[i].peer = retry[i].peer /\ w[i].entries = retry[i].entries
             /\ w[i].attempts = retry[i].attempts
  <2>1. retry[i] \in Batch /\ due[i] \in BOOLEAN
    BY <1>1
  <2>2. w[i] = [retry[i] EXCEPT !.due = due[i]]
    OBVIOUS
  <2> QED BY <2>1, <2>2 DEF Batch
<1>4. w \in Seq(Batch)
  <2>1. w \in [1..Len(retry) -> Batch]
    BY <1>1, <1>3, Zenon
  <2> HIDE DEF w
  <2> QED BY <1>1, <2>1
<1>5. /\ pass' \in Pass /\ pass'.kind = k /\ pass'.kept = <<>> /\ pass'.batches = EmptyQueue
      /\ pass'.work = w
  <2> HIDE DEF w
  <2>1. pass' = [Idle EXCEPT !.kind = k, !.work = w]
    BY DEF w
  <2>2. /\ pass'.kind = k /\ pass'.work = w /\ pass'.kept = <<>>
        /\ pass'.batches = EmptyQueue
        /\ pass' = [kind |-> k, work |-> w, kept |-> <<>>, batches |-> EmptyQueue,
                    since |-> 0, failed |-> FALSE]
    BY <2>1, Zenon DEF Idle
  <2>3. <<>> \in Seq(Batch) /\ k \in {"select", "retry", "flushRetry", "drain", "flushDrain"}
    OBVIOUS
  <2>4. EmptyQueue \in [Peers -> Seq(Items)] /\ 0 \in Nat /\ FALSE \in BOOLEAN
    BY WaitingEmpty
  <2>5. pass' \in Pass
    BY <1>4, <2>2, <2>3, <2>4, Zenon DEF Pass
  <2> QED BY <2>2, <2>5
<1> HIDE DEF w
<1>6. In(w) = In(retry) /\ Apart(w) /\ Counted(fails, w)
  <2>1. Apart(retry) /\ Counted(fails, retry)
    BY DEF QueueInv, PlaceInv, CountInv
  <2>2. DOMAIN w = DOMAIN retry
    BY <1>1, <1>2, <1>3, <1>4
  <2>3. /\ In(w) = In(retry)
        /\ Apart(retry) => Apart(w)
        /\ \A f : Counted(f, retry) => Counted(f, w)
    BY <1>1, <1>2, <1>3, <1>4, <2>2, InSame
  <2> QED BY <2>1, <2>3
<1> QED BY <1>5, <1>6

(* Taking the retry queue, whoever asked. *)
LEMMA TakenInv ==
    ASSUME QueueInv, pass.kind = "select", NEW k \in {"retry", "flushRetry"},
           pass' \in Pass, pass'.kind = k, pass'.kept = <<>>, pass'.batches = EmptyQueue,
           In(pass'.work) = In(retry), Apart(pass'.work), Counted(fails, pass'.work),
           retry' = <<>>, cmds' \in Seq(Command), Sends(cmds') = Sends(cmds), SendsApart(cmds'),
           UNCHANGED <<queue, link, instance, received, enqueued, dropped, fails, flush>>
    PROVE  QueueInv'
<1> USE DEF QueueInv
<1>1. pass.work = <<>> /\ pass.kept = <<>> /\ pass.batches = EmptyQueue
  BY DEF PassInv
<1>2. /\ In(<<>>) = {} /\ Apart(<<>>) /\ Waiting(EmptyQueue) = {}
      /\ \A f : Counted(f, <<>>)
  BY InEmpty, WaitingEmpty DEF Counted
<1>3. TypeOK'
  BY DEF TypeOK
<1>4. PassInv'
  BY DEF PassInv
<1>5. Pending' = Pending
  BY <1>1, <1>2 DEF Pending
<1>6. PlaceInv'
  BY <1>1, <1>2, <1>5 DEF PlaceInv
<1>7. CountInv'
  BY <1>1, <1>2, <1>5 DEF CountInv
<1>8. NothingLost'
  BY <1>5 DEF NothingLost, Delivered, Dropped
<1>9. GiveUpIsEarned'
  BY DEF GiveUpIsEarned
<1> QED BY <1>3, <1>4, <1>6, <1>7, <1>8, <1>9

LEMMA StartRetriesInv ==
    ASSUME QueueInv, StartRetries
    PROVE  QueueInv'
<1> DEFINE due == [i \in DOMAIN retry |->
                     instance /\ retry[i].age >= Backoff(retry[i].attempts)]
<1>1. due \in [DOMAIN retry -> BOOLEAN]
  BY Zenon
<1>2. pass' = [Idle EXCEPT !.kind = "retry",
                           !.work = [i \in DOMAIN retry |-> [retry[i] EXCEPT !.due = due[i]]]]
  BY Zenon DEF StartRetries
<1>3. /\ pass.kind = "select" /\ retry' = <<>> /\ cmds' = cmds
      /\ UNCHANGED <<queue, link, instance, received, enqueued, dropped, fails, flush>>
  BY DEF StartRetries
<1> HIDE DEF due
<1>4. /\ pass' \in Pass /\ pass'.kind = "retry" /\ pass'.kept = <<>> /\ pass'.batches = EmptyQueue
      /\ In(pass'.work) = In(retry) /\ Apart(pass'.work) /\ Counted(fails, pass'.work)
  BY <1>1, <1>2, <1>3, TakeRetries, Zenon
<1>5. cmds' \in Seq(Command) /\ Sends(cmds') = Sends(cmds) /\ SendsApart(cmds')
  BY <1>3 DEF QueueInv, TypeOK, PlaceInv
<1> QED BY <1>3, <1>4, <1>5, TakenInv

LEMMA StartFlushInv ==
    ASSUME QueueInv, StartFlush
    PROVE  QueueInv'
<1> DEFINE due == [i \in DOMAIN retry |-> TRUE]
<1>1. due \in [DOMAIN retry -> BOOLEAN]
  OBVIOUS
<1>2. pass' = [Idle EXCEPT !.kind = "flushRetry",
                           !.work = [i \in DOMAIN retry |-> [retry[i] EXCEPT !.due = due[i]]]]
  BY Zenon DEF StartFlush
<1>3. /\ pass.kind = "select" /\ retry' = <<>>
      /\ cmds # <<>> /\ Head(cmds).kind = "flush" /\ cmds' = Tail(cmds)
      /\ UNCHANGED <<queue, link, instance, received, enqueued, dropped, fails, flush>>
  BY DEF StartFlush
<1> HIDE DEF due
<1>4. /\ pass' \in Pass /\ pass'.kind = "flushRetry" /\ pass'.kept = <<>>
      /\ pass'.batches = EmptyQueue
      /\ In(pass'.work) = In(retry) /\ Apart(pass'.work) /\ Counted(fails, pass'.work)
  BY <1>1, <1>2, <1>3, TakeRetries, Zenon
<1>5. cmds' \in Seq(Command) /\ Sends(cmds') = Sends(cmds) /\ SendsApart(cmds')
  BY <1>3, SendsTail DEF QueueInv, TypeOK, PlaceInv
<1> QED BY <1>3, <1>4, <1>5, TakenInv

LEMMA EndRetriesInv ==
    ASSUME QueueInv, EndRetries
    PROVE  QueueInv'
<1> USE DEF QueueInv
<1>1. /\ pass.kind = "retry" /\ pass.work = <<>> /\ retry' = pass.kept /\ pass' = Idle
      /\ UNCHANGED <<queue, cmds, link, instance, received, enqueued, dropped, fails, flush>>
  BY DEF EndRetries
<1>2. retry = <<>> /\ pass.batches = EmptyQueue /\ pass.kept \in Seq(Batch)
  BY <1>1 DEF PassInv, TypeOK, Pass
<1>3. In(<<>>) = {} /\ Waiting(EmptyQueue) = {}
  BY InEmpty, WaitingEmpty
<1>4. TypeOK'
  BY <1>1, <1>2, IdleFields DEF TypeOK
<1>5. PassInv'
  BY <1>1, IdleFields DEF PassInv
<1>6. Pending' = Pending
  BY <1>1, <1>2, <1>3, IdleFields DEF Pending
<1>7. PlaceInv'
  BY <1>1, <1>2, <1>3, <1>6, IdleFields DEF PlaceInv
<1>8. CountInv'
  BY <1>1, <1>2, <1>3, <1>6, IdleFields DEF CountInv
<1>9. NothingLost'
  BY <1>1, <1>6 DEF NothingLost, Delivered, Dropped
<1>10. GiveUpIsEarned'
  BY <1>1 DEF GiveUpIsEarned
<1> QED BY <1>4, <1>5, <1>7, <1>8, <1>9, <1>10

LEMMA EndDrainInv ==
    ASSUME QueueInv, EndDrain
    PROVE  QueueInv'
<1> USE DEF QueueInv
<1>1. /\ pass.kind \in {"drain", "flushDrain"} /\ pass.batches = EmptyQueue /\ pass' = Idle
      /\ UNCHANGED <<queue, retry, cmds, link, instance, received, enqueued, dropped, fails>>
  BY DEF EndDrain
<1>2. pass.work = <<>> /\ pass.kept = <<>>
  BY <1>1 DEF PassInv
<1>3. In(<<>>) = {} /\ Waiting(EmptyQueue) = {}
  BY InEmpty, WaitingEmpty
<1>4. flush' \in [state : {"none", "waiting", "ok", "err"}, mark : SUBSET Handover]
  BY Zenon DEF EndDrain, TypeOK
<1>5. TypeOK'
  BY <1>1, <1>4, IdleFields DEF TypeOK
<1>6. PassInv'
  BY <1>1, IdleFields DEF PassInv
<1>7. Pending' = Pending
  BY <1>1, <1>2, <1>3, IdleFields DEF Pending
<1>8. PlaceInv'
  BY <1>1, <1>2, <1>3, <1>7, IdleFields DEF PlaceInv
<1>9. CountInv'
  BY <1>1, <1>2, <1>3, <1>7, IdleFields DEF CountInv
<1>10. NothingLost'
  BY <1>1, <1>7 DEF NothingLost, Delivered, Dropped
<1>11. GiveUpIsEarned'
  BY <1>1 DEF GiveUpIsEarned
<1> QED BY <1>5, <1>6, <1>8, <1>9, <1>10, <1>11

LEMMA OlderSame ==
    ASSUME NEW s \in Seq(Batch)
    PROVE  /\ Older(s) \in Seq(Batch) /\ In(Older(s)) = In(s)
           /\ Apart(s) => Apart(Older(s))
           /\ \A f : Counted(f, s) => Counted(f, Older(s))
           /\ s = <<>> => Older(s) = <<>>
<1> DEFINE o == Older(s)
<1>1. DOMAIN o = DOMAIN s /\ DOMAIN s = 1..Len(s) /\ Len(s) \in Nat
  BY DEF Older
<1>2. ASSUME NEW i \in DOMAIN s
      PROVE  /\ o[i] \in Batch
             /\ o[i].peer = s[i].peer /\ o[i].entries = s[i].entries
             /\ o[i].attempts = s[i].attempts
  <2>1. s[i] \in Batch
    OBVIOUS
  <2> DEFINE a == IF s[i].age < MaxAge THEN s[i].age + 1 ELSE s[i].age
  <2>2. o[i] = [s[i] EXCEPT !.age = a]
    BY DEF Older
  <2>3. a \in Nat
    BY <2>1 DEF Batch
  <2> HIDE DEF a, o
  <2> QED BY <2>1, <2>2, <2>3, Zenon DEF Batch
<1>3. o \in Seq(Batch)
  <2>1. o \in [1..Len(s) -> Batch]
    BY <1>1, <1>2, Zenon DEF Older
  <2> HIDE DEF o
  <2> QED BY <1>1, <2>1
<1>4. s = <<>> => o = <<>>
  BY DEF Older
<1> HIDE DEF o
<1>5. /\ In(o) = In(s)
      /\ Apart(s) => Apart(o)
      /\ \A f : Counted(f, s) => Counted(f, o)
  BY <1>1, <1>2, <1>3, InSame
<1> QED BY <1>3, <1>4, <1>5 DEF o

LEMMA TickInv ==
    ASSUME QueueInv, Tick
    PROVE  QueueInv'
<1> USE DEF QueueInv
<1>1. /\ retry' = Older(retry)
      /\ UNCHANGED <<queue, cmds, link, instance, received, enqueued, dropped, fails, flush>>
  BY DEF Tick
<1>2. pass \in Pass /\ retry \in Seq(Batch) /\ pass.work \in Seq(Batch) /\ pass.kept \in Seq(Batch)
  BY DEF TypeOK, Pass
<1>3. /\ pass'.kind = pass.kind /\ pass'.batches = pass.batches
      /\ pass'.work = Older(pass.work) /\ pass'.kept = Older(pass.kept)
      /\ pass'.since \in Nat /\ pass'.failed = pass.failed
      /\ pass' = [kind |-> pass'.kind, work |-> pass'.work, kept |-> pass'.kept,
                  batches |-> pass'.batches, since |-> pass'.since, failed |-> pass'.failed]
  <2> DEFINE t == IF pass.kind \in {"retry", "flushRetry"} /\ pass.since < MaxAge
                  THEN pass.since + 1 ELSE pass.since
  <2>1. t \in Nat
    BY <1>2 DEF Pass
  <2>2. pass' = [pass EXCEPT !.work = Older(pass.work), !.kept = Older(pass.kept), !.since = t]
    BY DEF Tick
  <2> HIDE DEF t
  <2> QED BY <1>2, <2>1, <2>2, Zenon DEF Pass
<1>4. pass' \in Pass
  BY <1>2, <1>3, OlderSame DEF Pass
<1>5. /\ retry' \in Seq(Batch)
      /\ In(retry') = In(retry) /\ In(pass'.work) = In(pass.work) /\ In(pass'.kept) = In(pass.kept)
  BY <1>1, <1>2, <1>3, OlderSame
<1>6. TypeOK'
  BY <1>1, <1>4, <1>5 DEF TypeOK
<1>7. PassInv'
  BY <1>1, <1>2, <1>3, OlderSame DEF PassInv
<1>8. Pending' = Pending
  BY <1>1, <1>3, <1>5 DEF Pending
<1>9. Apart(retry') /\ Apart(pass'.work) /\ Apart(pass'.kept)
  BY <1>1, <1>2, <1>3, OlderSame DEF PlaceInv
<1>10. Counted(fails, retry') /\ Counted(fails, pass'.work) /\ Counted(fails, pass'.kept)
  BY <1>1, <1>2, <1>3, OlderSame DEF CountInv
<1>11. PlaceInv'
  BY <1>1, <1>3, <1>5, <1>8, <1>9 DEF PlaceInv
<1>12. CountInv'
  BY <1>1, <1>3, <1>8, <1>10 DEF CountInv
<1>13. NothingLost'
  BY <1>1, <1>8 DEF NothingLost, Delivered, Dropped
<1>14. GiveUpIsEarned'
  BY <1>1 DEF GiveUpIsEarned
<1> QED BY <1>6, <1>7, <1>11, <1>12, <1>13, <1>14

(* Links and the instance come and go beside the queues. *)
LEMMA OutsideInv ==
    ASSUME QueueInv, link' \subseteq Peers, instance' \in BOOLEAN,
           UNCHANGED <<queue, retry, cmds, pass, received, enqueued, dropped, fails, flush>>
    PROVE  QueueInv'
<1> USE DEF QueueInv
<1>1. TypeOK'
  BY DEF TypeOK
<1>2. PassInv'
  BY DEF PassInv
<1>3. Pending' = Pending
  BY DEF Pending
<1>4. PlaceInv'
  BY <1>3 DEF PlaceInv
<1>5. CountInv'
  BY <1>3 DEF CountInv
<1>6. NothingLost'
  BY <1>3 DEF NothingLost, Delivered, Dropped
<1>7. GiveUpIsEarned'
  BY DEF GiveUpIsEarned
<1> QED BY <1>1, <1>2, <1>4, <1>5, <1>6, <1>7

LEMMA RestartInv ==
    ASSUME QueueInv, Restart
    PROVE  QueueInv'
<1> USE DEF QueueInv
<1>1. /\ queue' = EmptyQueue /\ retry' = <<>> /\ cmds' = <<>> /\ pass' = Idle /\ instance' = TRUE
      /\ dropped' = dropped \cup Drop(Pending, "restart")
      /\ flush' = [state |-> "none", mark |-> {}]
      /\ UNCHANGED <<link, received, enqueued, fails>>
  BY DEF Restart
<1>2. /\ dropped' \subseteq [to : Handover, why : Reasons]
      /\ Dropped' = Dropped \cup Pending
      /\ \A d \in dropped' : d \in dropped \/ d.why = "restart"
  <2>1. Pending \in SUBSET Handover
    BY DEF PlaceInv, TypeOK
  <2>2. "restart" \in Reasons
    BY DEF Reasons
  <2> QED BY <1>1, <2>1, <2>2, DroppedGrows, Zenon
<1>3. /\ In(<<>>) = {} /\ Apart(<<>>) /\ Sends(<<>>) = {} /\ SendsApart(<<>>)
      /\ Waiting(EmptyQueue) = {} /\ EmptyQueue \in [Peers -> Seq(Items)]
      /\ \A f : Counted(f, <<>>)
  BY InEmpty, SendsEmpty, WaitingEmpty DEF Counted
<1>4. TypeOK'
  BY <1>1, <1>2, <1>3, IdleFields DEF TypeOK
<1>5. PassInv'
  BY <1>1, IdleFields DEF PassInv
<1>6. Pending' = {}
  BY <1>1, <1>3, IdleFields DEF Pending
<1>7. PlaceInv'
  BY <1>1, <1>3, <1>6, IdleFields DEF PlaceInv
<1>8. CountInv'
  BY <1>1, <1>2, <1>3, <1>6, IdleFields DEF CountInv
<1>9. NothingLost'
  BY <1>1, <1>2 DEF NothingLost, Delivered
<1>10. GiveUpIsEarned'
  BY <1>1, <1>2 DEF GiveUpIsEarned
<1> QED BY <1>4, <1>5, <1>7, <1>8, <1>9, <1>10
=============================================================================
