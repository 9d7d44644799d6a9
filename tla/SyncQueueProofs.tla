-------------------------- MODULE SyncQueueProofs --------------------------
(***************************************************************************)
(* The sync engine loses no entry and counts the failed sends of every     *)
(* entry exactly, and a flush that answers Ok leaves nothing waiting, for  *)
(* every set of peers and entries, every number of attempts and every      *)
(* number of faults, flushes and restarts.                                 *)
(***************************************************************************)
EXTENDS SyncQueueLemmas

(* The batch a failed first send leaves. *)
LEMMA FirstFailure ==
    ASSUME QueueInv, NEW p \in Peers, NEW es \in Seq(Items), Unacked(p, es, FALSE),
           To(p, es) \subseteq Waiting(queue) \cup Sends(cmds) \cup Waiting(pass.batches),
           retry' = Append(retry, RetryEntry(p, es, 1, 0))
    PROVE  /\ retry' \in Seq(Batch)
           /\ In(retry') = In(retry) \cup To(p, es)
           /\ Apart(retry')
           /\ Counted(fails', retry')
<1> USE DEF QueueInv
<1> DEFINE b == RetryEntry(p, es, 1, 0)
<1>1. b \in Batch /\ b.peer = p /\ b.entries = es /\ b.attempts = 1
  BY DEF RetryEntry, Batch
<1>2. Of(b) = To(p, es)
  BY <1>1 DEF Of
<1>3. Of(b) \cap In(retry) = {}
  BY <1>2, NeverSentApart
<1>4. /\ \A h \in To(p, es) : fails'[h] = 1
      /\ \A h \in Handover \ To(p, es) : fails'[h] = fails[h]
  <2>1. \A h \in To(p, es) : fails[h] = 0
    BY DEF CountInv
  <2>2. /\ \A h \in To(p, es) : fails'[h] = fails[h] + 1
        /\ \A h \in Handover \ To(p, es) : fails'[h] = fails[h]
    BY UnackedStep, Zenon
  <2> QED BY <2>1, <2>2
<1> HIDE DEF b
<1>5. Counts(fails', b)
  <2>1. 1 \in 1..(MaxAttempts - 1)
    BY QueueAssumption
  <2> QED BY <1>1, <1>2, <1>4, <2>1, Zenon DEF Counts
<1>6. retry \in Seq(Batch) /\ Apart(retry) /\ Counted(fails, retry)
  BY DEF TypeOK, PlaceInv, CountInv
<1>7. Counted(fails', retry)
  <2>1. In(retry) \cap To(p, es) = {}
    BY <1>2, <1>3
  <2> QED BY <1>4, <1>6, <2>1, CountedElsewhere, Zenon
<1>8. /\ Append(retry, b) \in Seq(Batch)
      /\ In(Append(retry, b)) = In(retry) \cup Of(b)
      /\ Apart(Append(retry, b))
      /\ Counted(fails', Append(retry, b))
  BY <1>1, <1>3, <1>5, <1>6, <1>7, InAppend, Zenon
<1> QED BY <1>2, <1>8 DEF b

(* A first send takes what it sends out of the channel or out of the       *)
(* drain, and leaves the rest.                                             *)
LEMMA FirstSendInv ==
    ASSUME QueueInv, NEW p \in Peers, NEW es \in Seq(Items), NEW hs, hs = To(p, es),
           \/ Acked(p, es) /\ UNCHANGED retry
           \/ Unacked(p, es, FALSE) /\ retry' = Append(retry, RetryEntry(p, es, 1, 0)),
           hs \subseteq Sends(cmds) \cup Waiting(pass.batches),
           Sends(cmds') = Sends(cmds) \ hs,
           Waiting(pass'.batches) = Waiting(pass.batches) \ hs,
           cmds' \in Seq(Command), SendsApart(cmds'), pass' \in Pass, PassInv',
           pass.work = <<>>, pass.kept = <<>>, pass'.work = <<>>, pass'.kept = <<>>,
           UNCHANGED <<queue, link, instance, enqueued, flush>>
    PROVE  QueueInv'
<1> USE DEF QueueInv
<1>1. In(<<>>) = {} /\ \A f : Counted(f, <<>>)
  BY InEmpty DEF Counted
<1>2. hs \subseteq Pending /\ Pending \subseteq Handover /\ \A h \in hs : fails[h] = 0
  BY DEF Pending, CountInv, PlaceInv, TypeOK
<1>3. Waiting(queue) \cap hs = {}
  BY DEF PlaceInv
<1>4. CASE Acked(p, es) /\ UNCHANGED retry
  <2>1. /\ received' \in [Peers -> SUBSET Items]
        /\ dropped' \subseteq [to : Handover, why : Reasons]
        /\ fails' = fails /\ Delivered \subseteq Delivered' /\ Dropped \subseteq Dropped'
        /\ hs \subseteq Delivered' \cup Dropped'
        /\ \A d \in dropped' : d.why = "attempts" => d \in dropped
    BY <1>4, AckedStep
  <2>2. TypeOK'
    BY <1>4, <2>1 DEF TypeOK
  <2>3. Pending' \subseteq Pending /\ Pending \subseteq Pending' \cup hs
    BY <1>4 DEF Pending
  <2>4. PlaceInv'
    BY <1>4, <2>3 DEF PlaceInv
  <2>5. CountInv'
    BY <1>4, <2>1, <2>3 DEF CountInv
  <2>6. NothingLost'
    BY <2>1, <2>3 DEF NothingLost
  <2>7. GiveUpIsEarned'
    BY <2>1 DEF GiveUpIsEarned
  <2> QED BY <2>2, <2>4, <2>5, <2>6, <2>7
<1>5. CASE Unacked(p, es, FALSE) /\ retry' = Append(retry, RetryEntry(p, es, 1, 0))
  <2>1. /\ received' \in [Peers -> SUBSET Items] /\ dropped' = dropped
        /\ fails' \in [Handover -> Nat]
        /\ \A h \in hs : fails'[h] = fails[h] + 1
        /\ \A h \in Handover \ hs : fails'[h] = fails[h]
        /\ Delivered \subseteq Delivered'
    BY <1>5, UnackedStep, Zenon
  <2>2. /\ retry' \in Seq(Batch) /\ In(retry') = In(retry) \cup hs
        /\ Apart(retry') /\ Counted(fails', retry')
    BY <1>5, FirstFailure, Zenon
  <2>3. TypeOK'
    BY <2>1, <2>2 DEF TypeOK
  <2>4. Pending' = Pending
    BY <2>2 DEF Pending
  <2>5. PlaceInv'
    BY <1>1, <2>2, <2>4 DEF PlaceInv
  <2>6. CountInv'
    <3>1. Waiting(queue') \cup Sends(cmds') \cup Waiting(pass'.batches)
            \subseteq (Waiting(queue) \cup Sends(cmds) \cup Waiting(pass.batches)) \ hs
      BY <1>3
    <3>2. Waiting(queue) \cup Sends(cmds) \cup Waiting(pass.batches) \subseteq Handover
      BY <1>2 DEF Pending
    <3>3. \A h \in Waiting(queue') \cup Sends(cmds') \cup Waiting(pass'.batches) : fails'[h] = 0
      BY <2>1, <3>1, <3>2 DEF CountInv
    <3>4. \A h \in Handover \ enqueued : fails'[h] = 0
      BY <1>2, <2>1 DEF CountInv, PlaceInv
    <3> QED BY <1>1, <2>1, <2>2, <2>4, <3>3, <3>4 DEF CountInv
  <2>7. NothingLost'
    BY <2>1, <2>4 DEF NothingLost, Dropped
  <2>8. GiveUpIsEarned'
    <3>1. \A h \in Handover : fails'[h] <= MaxAttempts
      BY <1>2, <2>1, QueueAssumption DEF GiveUpIsEarned
    <3>2. \A d \in dropped : d.why = "attempts" => d.to \in Handover \ hs
      BY <1>2 DEF CountInv, TypeOK
    <3> QED BY <2>1, <3>1, <3>2 DEF GiveUpIsEarned
  <2> QED BY <2>3, <2>5, <2>6, <2>7, <2>8
<1> QED BY <1>4, <1>5, Zenon

LEMMA HandleSendInv ==
    ASSUME QueueInv, HandleSend
    PROVE  QueueInv'
<1> USE DEF QueueInv
<1> DEFINE c == Head(cmds)
           p == c.peer
           es == c.entries
           hs == To(p, es)
<1>1. /\ pass.kind = "select" /\ cmds # <<>> /\ c.kind = "send" /\ cmds' = Tail(cmds)
      /\ UNCHANGED <<queue, pass, link, instance, enqueued, flush>>
  BY DEF HandleSend
<1>2. cmds \in Seq(Command) /\ c \in Command
  BY <1>1, SendsTail DEF TypeOK
<1>3. p \in Peers /\ es \in Seq(Items)
  BY <1>1, <1>2 DEF Command
<1>4. \/ Acked(p, es) /\ UNCHANGED retry
      \/ Unacked(p, es, FALSE) /\ retry' = Append(retry, RetryEntry(p, es, 1, 0))
  BY Zenon DEF HandleSend
<1>5. Of(c) = hs
  BY DEF Of
<1> HIDE DEF c, p, es, hs
<1>6. /\ cmds' \in Seq(Command) /\ SendsApart(cmds')
      /\ Sends(cmds) = hs \cup Sends(cmds') /\ hs \cap Sends(cmds') = {}
  BY <1>1, <1>2, <1>5, SendsTail DEF PlaceInv, c
<1>7. pass.work = <<>> /\ pass.kept = <<>> /\ pass.batches = EmptyQueue
  BY <1>1 DEF PassInv
<1>8. Waiting(pass'.batches) = Waiting(pass.batches) \ hs /\ Sends(cmds') = Sends(cmds) \ hs
  BY <1>1, <1>6, <1>7, WaitingEmpty
<1>9. PassInv' /\ pass' \in Pass
  BY <1>1 DEF PassInv, TypeOK
<1> QED BY <1>1, <1>3, <1>4, <1>6, <1>7, <1>8, <1>9, FirstSendInv, Zenon DEF hs

LEMMA SendBatchInv ==
    ASSUME QueueInv, NEW p \in Peers, SendBatch(p)
    PROVE  QueueInv'
<1> USE DEF QueueInv
<1> DEFINE es == pass.batches[p]
           hs == To(p, es)
           rest == [pass.batches EXCEPT ![p] = <<>>]
<1>1. /\ pass.kind \in {"drain", "flushDrain"}
      /\ UNCHANGED <<queue, cmds, link, instance, enqueued, flush>>
  BY DEF SendBatch
<1>2. pass \in Pass /\ pass.batches \in [Peers -> Seq(Items)] /\ es \in Seq(Items)
  BY DEF TypeOK, Pass
<1>3. PICK n \in BOOLEAN :
        /\ pass' = [pass EXCEPT !.batches[p] = <<>>, !.failed = @ \/ n]
        /\ \/ Acked(p, es) /\ UNCHANGED retry
           \/ Unacked(p, es, FALSE) /\ retry' = Append(retry, RetryEntry(p, es, 1, 0))
  BY Zenon DEF SendBatch
<1>4. /\ rest \in [Peers -> Seq(Items)]
      /\ Waiting(rest) = Waiting(pass.batches) \ hs
      /\ hs \subseteq Waiting(pass.batches)
  <2>1. <<>> \in Seq(Items) /\ To(p, <<>>) = {}
    BY ToEmpty
  <2>2. /\ rest \in [Peers -> Seq(Items)]
        /\ Waiting(rest) = (Waiting(pass.batches) \ To(p, es)) \cup To(p, <<>>)
    BY <1>2, <2>1, WaitingExcept, Zenon
  <2>3. hs \subseteq Waiting(pass.batches)
    BY DEF Waiting
  <2> QED BY <2>1, <2>2, <2>3
<1>5. /\ pass' \in Pass /\ pass'.kind = pass.kind /\ pass'.batches = rest
      /\ pass'.work = pass.work /\ pass'.kept = pass.kept
  <2> DEFINE m == pass.failed \/ n
  <2>1. pass' = [pass EXCEPT !.batches = rest, !.failed = m]
    BY <1>2, <1>3 DEF Pass
  <2>2. m \in BOOLEAN
    OBVIOUS
  <2> HIDE DEF rest, m
  <2> QED BY <1>2, <1>4, <2>1, <2>2, Zenon DEF Pass
<1>6. pass.work = <<>> /\ pass.kept = <<>>
  BY <1>1 DEF PassInv
<1>7. PassInv'
  BY <1>1, <1>5 DEF PassInv
<1> HIDE DEF es, rest, hs
<1>8. /\ cmds' \in Seq(Command) /\ SendsApart(cmds') /\ Sends(cmds') = Sends(cmds) \ hs
      /\ Waiting(pass'.batches) = Waiting(pass.batches) \ hs
  BY <1>1, <1>4, <1>5 DEF PlaceInv, TypeOK
<1> QED BY <1>1, <1>2, <1>3, <1>4, <1>5, <1>6, <1>7, <1>8, FirstSendInv, Zenon DEF hs

LEMMA UnreadableInv ==
    ASSUME QueueInv, NEW p \in Peers, Unreadable(p)
    PROVE  QueueInv'
<1> USE DEF QueueInv
<1> DEFINE es == pass.batches[p]
<1>1. /\ pass.kind \in {"drain", "flushDrain"}
      /\ UNCHANGED <<queue, retry, cmds, link, instance, received, enqueued, fails, flush>>
  BY DEF Unreadable
<1>2. pass \in Pass /\ pass.batches \in [Peers -> Seq(Items)] /\ es \in Seq(Items)
  BY DEF TypeOK, Pass
<1>3. PICK i \in DOMAIN es :
        /\ pass' = [pass EXCEPT !.batches[p] = Without(@, i)]
        /\ dropped' = dropped \cup Drop({<<p, es[i]>>}, "unreadable")
  BY DEF Unreadable
<1> DEFINE h == <<p, es[i]>>
           rest == [pass.batches EXCEPT ![p] = Without(es, i)]
<1>4. /\ rest \in [Peers -> Seq(Items)]
      /\ Waiting(rest) \subseteq Waiting(pass.batches)
      /\ Waiting(pass.batches) \subseteq Waiting(rest) \cup {h}
  <2>1. /\ Without(es, i) \in Seq(Items)
        /\ To(p, Without(es, i)) \subseteq To(p, es)
        /\ To(p, es) \subseteq To(p, Without(es, i)) \cup {h}
    BY <1>2, ToWithout, Zenon
  <2>2. /\ rest \in [Peers -> Seq(Items)]
        /\ Waiting(rest) = (Waiting(pass.batches) \ To(p, es)) \cup To(p, Without(es, i))
    BY <1>2, <2>1, WaitingExcept, Zenon
  <2>3. To(p, es) \subseteq Waiting(pass.batches)
    BY DEF Waiting
  <2> QED BY <2>1, <2>2, <2>3
<1>5. /\ pass' \in Pass /\ pass'.kind = pass.kind /\ pass'.batches = rest
      /\ pass'.work = pass.work /\ pass'.kept = pass.kept
  <2>1. pass' = [pass EXCEPT !.batches = rest]
    BY <1>2, <1>3 DEF Pass
  <2> HIDE DEF rest
  <2> QED BY <1>2, <1>4, <2>1, Zenon DEF Pass
<1>6. /\ dropped' \subseteq [to : Handover, why : Reasons]
      /\ Dropped' = Dropped \cup {h}
      /\ \A d \in dropped' : d.why = "attempts" => d \in dropped
  <2>1. {h} \in SUBSET Handover
    BY <1>2 DEF Handover
  <2>2. "unreadable" \in Reasons
    BY DEF Reasons
  <2> QED BY <1>3, <2>1, <2>2, DroppedGrows, Zenon
<1> HIDE DEF es, h, rest
<1>7. TypeOK'
  BY <1>1, <1>5, <1>6 DEF TypeOK
<1>8. PassInv'
  BY <1>1, <1>5 DEF PassInv
<1>9. Pending' \subseteq Pending /\ Pending \subseteq Pending' \cup {h}
  BY <1>1, <1>4, <1>5 DEF Pending
<1>10. PlaceInv'
  BY <1>1, <1>4, <1>5, <1>9 DEF PlaceInv
<1>11. CountInv'
  BY <1>1, <1>4, <1>5, <1>6, <1>9 DEF CountInv
<1>12. NothingLost'
  BY <1>1, <1>6, <1>9 DEF NothingLost, Delivered
<1>13. GiveUpIsEarned'
  BY <1>1, <1>6 DEF GiveUpIsEarned
<1> QED BY <1>7, <1>8, <1>10, <1>11, <1>12, <1>13

(* One batch of a pass over the retry queue: it goes into kept, with one   *)
(* more attempt when its send failed, unless it was stored or given up.    *)
LEMMA RetryOneInv ==
    ASSUME QueueInv, RetryOne
    PROVE  QueueInv'
<1> USE DEF QueueInv
<1> DEFINE b == Head(pass.work)
           p == b.peer
           es == b.entries
           hs == To(p, es)
           failed == RetryEntry(p, es, b.attempts + 1, pass.since)
           exhausted == Exhausted(failed.attempts)
<1>1. /\ pass.kind \in {"retry", "flushRetry"} /\ pass.work # <<>>
      /\ UNCHANGED <<queue, retry, cmds, link, instance, enqueued, flush>>
  BY DEF RetryOne
<1>2. pass \in Pass /\ pass.work \in Seq(Batch) /\ pass.kept \in Seq(Batch) /\ pass.since \in Nat
  BY DEF TypeOK, Pass
<1>3. /\ b \in Batch /\ Tail(pass.work) \in Seq(Batch)
      /\ In(pass.work) = Of(b) \cup In(Tail(pass.work))
      /\ Apart(Tail(pass.work)) /\ Of(b) \cap In(Tail(pass.work)) = {}
      /\ Counted(fails, Tail(pass.work)) /\ Counts(fails, b)
  BY <1>1, <1>2, InTail DEF PlaceInv, CountInv
<1>4. p \in Peers /\ es \in Seq(Items) /\ b.attempts \in Nat
  BY <1>3 DEF Batch
<1>5. Of(b) = hs
  BY DEF Of
<1>6. hs \subseteq Handover
  BY <1>4, InHandover
<1>7. retry = <<>> /\ pass.batches = EmptyQueue /\ Waiting(pass.batches) = {} /\ In(retry) = {}
  BY <1>1, InEmpty, WaitingEmpty DEF PassInv
<1>8. /\ failed \in Batch /\ Of(failed) = hs /\ failed.attempts = b.attempts + 1
      /\ exhausted \in BOOLEAN
      /\ exhausted <=> b.attempts + 1 >= MaxAttempts
  <2> HIDE DEF b
  <2>1. /\ failed \in Batch /\ failed.peer = p /\ failed.entries = es
        /\ failed.attempts = b.attempts + 1
    <3> DEFINE a == b.attempts + 1
    <3>1. a \in Nat /\ failed = RetryEntry(p, es, a, pass.since)
      BY <1>4
    <3> HIDE DEF a, p, es, failed
    <3> QED BY <1>2, <1>4, <3>1 DEF RetryEntry, Batch, a
  <2>2. exhausted <=> b.attempts + 1 >= MaxAttempts
    BY <2>1 DEF Exhausted
  <2>3. exhausted \in BOOLEAN
    BY DEF Exhausted
  <2> QED BY <2>1, <2>2, <2>3 DEF Of
<1>9. \/ /\ Acked(p, es)
         /\ pass' = [pass EXCEPT !.work = Tail(@), !.kept = pass.kept]
      \/ /\ Unacked(p, es, exhausted)
         /\ pass' = [pass EXCEPT !.work = Tail(@),
                        !.kept = IF exhausted THEN pass.kept ELSE Append(pass.kept, failed)]
      \/ /\ pass' = [pass EXCEPT !.work = Tail(@), !.kept = Append(pass.kept, b)]
         /\ UNCHANGED <<received, dropped, fails>>
  BY DEF RetryOne, NotReady
<1>10. /\ b.attempts \in 1..(MaxAttempts - 1)
       /\ \A h \in hs : fails[h] = b.attempts
  BY <1>3, <1>5 DEF Counts
<1>11. hs \subseteq Pending /\ hs \cap In(pass.kept) = {} /\ hs \cap In(Tail(pass.work)) = {}
  BY <1>3, <1>5 DEF Pending, PlaceInv
<1>12. hs \cap (Waiting(queue) \cup Sends(cmds)) = {}
  BY <1>3, <1>5, NeverSentApart
<1> HIDE DEF b, p, es, failed, exhausted
<1>13. ASSUME NEW k \in Seq(Batch), pass' = [pass EXCEPT !.work = Tail(@), !.kept = k]
       PROVE  /\ pass' \in Pass /\ pass'.kind = pass.kind /\ pass'.batches = pass.batches
              /\ pass'.work = Tail(pass.work) /\ pass'.kept = k
              /\ PassInv'
  <2>1. /\ pass' \in Pass /\ pass'.kind = pass.kind /\ pass'.batches = pass.batches
        /\ pass'.work = Tail(pass.work) /\ pass'.kept = k
    BY <1>2, <1>3, <1>13, Zenon DEF Pass
  <2> QED BY <1>1, <1>7, <2>1 DEF PassInv
<1>14. CASE /\ Acked(p, es)
            /\ pass' = [pass EXCEPT !.work = Tail(@), !.kept = pass.kept]
  <2>1. /\ received' \in [Peers -> SUBSET Items]
        /\ dropped' \subseteq [to : Handover, why : Reasons]
        /\ fails' = fails /\ Delivered \subseteq Delivered' /\ Dropped \subseteq Dropped'
        /\ hs \subseteq Delivered' \cup Dropped'
        /\ \A d \in dropped' : d.why = "attempts" => d \in dropped
    BY <1>4, <1>14, AckedStep
  <2> HIDE DEF hs
  <2>2. /\ pass' \in Pass /\ pass'.kind = pass.kind /\ pass'.batches = pass.batches
        /\ pass'.work = Tail(pass.work) /\ pass'.kept = pass.kept
        /\ PassInv'
    BY <1>2, <1>13, <1>14, Zenon
  <2>3. TypeOK'
    BY <1>1, <2>1, <2>2 DEF TypeOK
  <2>4. Pending' \subseteq Pending /\ Pending \subseteq Pending' \cup hs
    BY <1>1, <1>3, <1>5, <2>2 DEF Pending
  <2>5. PlaceInv'
    BY <1>1, <1>3, <2>2, <2>4 DEF PlaceInv
  <2>6. CountInv'
    BY <1>1, <1>3, <2>1, <2>2, <2>4 DEF CountInv
  <2>7. NothingLost'
    BY <1>1, <2>1, <2>4 DEF NothingLost
  <2>8. GiveUpIsEarned'
    BY <2>1 DEF GiveUpIsEarned
  <2> QED BY <2>2, <2>3, <2>5, <2>6, <2>7, <2>8
<1>15. CASE /\ pass' = [pass EXCEPT !.work = Tail(@), !.kept = Append(pass.kept, b)]
            /\ UNCHANGED <<received, dropped, fails>>
  <2> DEFINE k == Append(pass.kept, b)
  <2>1. /\ k \in Seq(Batch) /\ In(k) = In(pass.kept) \cup hs
        /\ Apart(k) /\ Counted(fails, k)
    <3>1. Of(b) \cap In(pass.kept) = {} /\ Apart(pass.kept) /\ Counted(fails, pass.kept)
      BY <1>5, <1>11 DEF PlaceInv, CountInv
    <3> QED BY <1>2, <1>3, <1>5, <3>1, InAppend
  <2> HIDE DEF hs
  <2>2. /\ pass' \in Pass /\ pass'.kind = pass.kind /\ pass'.batches = pass.batches
        /\ pass'.work = Tail(pass.work) /\ pass'.kept = k
        /\ PassInv'
    BY <1>13, <1>15, <2>1, Zenon
  <2> HIDE DEF k
  <2>3. TypeOK'
    BY <1>1, <1>15, <2>2 DEF TypeOK
  <2>4. Pending' = Pending
    BY <1>1, <1>3, <1>5, <2>1, <2>2 DEF Pending
  <2>5. PlaceInv'
    BY <1>1, <1>3, <1>5, <1>11, <2>1, <2>2, <2>4 DEF PlaceInv
  <2>6. CountInv'
    BY <1>1, <1>3, <1>15, <2>1, <2>2, <2>4, Zenon DEF CountInv
  <2>7. NothingLost'
    BY <1>1, <1>15, <2>4 DEF NothingLost, Delivered, Dropped
  <2>8. GiveUpIsEarned'
    BY <1>15 DEF GiveUpIsEarned
  <2> QED BY <2>2, <2>3, <2>5, <2>6, <2>7, <2>8
<1>16. CASE /\ Unacked(p, es, exhausted)
            /\ pass' = [pass EXCEPT !.work = Tail(@),
                           !.kept = IF exhausted THEN pass.kept ELSE Append(pass.kept, failed)]
  <2> DEFINE k == IF exhausted THEN pass.kept ELSE Append(pass.kept, failed)
  <2>1. /\ received' \in [Peers -> SUBSET Items]
        /\ dropped' \subseteq [to : Handover, why : Reasons]
        /\ fails' \in [Handover -> Nat]
        /\ \A h \in hs : fails'[h] = fails[h] + 1
        /\ \A h \in Handover \ hs : fails'[h] = fails[h]
        /\ Delivered \subseteq Delivered' /\ Dropped \subseteq Dropped'
        /\ exhausted => hs \subseteq Dropped'
        /\ \A d \in dropped' : d \in dropped \/ (exhausted /\ d.to \in hs)
    BY <1>4, <1>8, <1>16, UnackedStep
  <2> HIDE DEF hs
  <2>2. \A h \in hs : fails'[h] = b.attempts + 1
    BY <1>10, <2>1
  <2>3. Counted(fails', Tail(pass.work)) /\ Counted(fails', pass.kept)
    <3>1. In(Tail(pass.work)) \cap hs = {} /\ In(pass.kept) \cap hs = {}
      BY <1>11
    <3>2. Counted(fails, pass.kept)
      BY DEF CountInv
    <3>3. Counted(fails', pass.kept)
      BY <1>2, <2>1, <3>1, <3>2, CountedElsewhere, Zenon
    <3>4. Counted(fails', Tail(pass.work))
      BY <1>3, <2>1, <3>1, CountedElsewhere, Zenon
    <3> QED BY <3>3, <3>4
  <2>4. /\ k \in Seq(Batch) /\ Apart(k) /\ Counted(fails', k)
        /\ exhausted => In(k) = In(pass.kept)
        /\ ~ exhausted => In(k) = In(pass.kept) \cup hs
    <3>1. CASE exhausted
      BY <1>2, <2>3, <3>1 DEF PlaceInv
    <3>2. CASE ~ exhausted
      <4>1. failed.attempts \in 1..(MaxAttempts - 1)
        BY <1>8, <1>10, <3>2, QueueAssumption
      <4>2. Counts(fails', failed)
        BY <1>8, <2>2, <4>1, Zenon DEF Counts
      <4>3. Apart(pass.kept) /\ Of(failed) \cap In(pass.kept) = {}
        BY <1>8, <1>11 DEF PlaceInv
      <4> QED BY <1>2, <1>8, <2>3, <3>2, <4>2, <4>3, InAppend, Zenon
    <3> QED BY <3>1, <3>2
  <2>5. /\ pass' \in Pass /\ pass'.kind = pass.kind /\ pass'.batches = pass.batches
        /\ pass'.work = Tail(pass.work) /\ pass'.kept = k
        /\ PassInv'
    BY <1>13, <1>16, <2>4, Zenon
  <2> HIDE DEF k
  <2>6. TypeOK'
    BY <1>1, <2>1, <2>5 DEF TypeOK
  <2>7. /\ Pending' \subseteq Pending /\ Pending \subseteq Pending' \cup hs
        /\ ~ exhausted => Pending' = Pending
        /\ exhausted => Pending' \cap hs = {}
    <3>1. Pending' = Waiting(queue) \cup In(retry) \cup Sends(cmds) \cup In(Tail(pass.work))
                       \cup In(k) \cup Waiting(pass.batches)
      BY <1>1, <2>5 DEF Pending
    <3>2. Pending = Waiting(queue) \cup In(retry) \cup Sends(cmds) \cup hs
                      \cup In(Tail(pass.work)) \cup In(pass.kept) \cup Waiting(pass.batches)
      BY <1>3, <1>5 DEF Pending
    <3>3. CASE exhausted
      BY <1>7, <1>11, <1>12, <2>4, <3>1, <3>2, <3>3
    <3>4. CASE ~ exhausted
      BY <2>4, <3>1, <3>2, <3>4
    <3> QED BY <1>8, <3>3, <3>4
  <2>8. PlaceInv'
    <3>1. In(Tail(pass.work)) \cap In(k) = {}
      BY <1>3, <1>5, <1>8, <1>11, <2>4 DEF PlaceInv
    <3> QED BY <1>1, <1>3, <2>4, <2>5, <2>7, <3>1 DEF PlaceInv
  <2>9. CountInv'
    <3>1. \A h \in Waiting(queue') \cup Sends(cmds') \cup Waiting(pass'.batches) : fails'[h] = 0
      <4>1. Waiting(queue) \cup Sends(cmds) \cup Waiting(pass.batches) \subseteq Handover \ hs
        BY <1>7, <1>12 DEF PlaceInv, Pending, TypeOK
      <4> QED BY <1>1, <2>1, <2>5, <4>1 DEF CountInv
    <3>2. \A h \in Handover \ enqueued : fails'[h] = 0
      BY <1>11, <2>1 DEF CountInv, PlaceInv
    <3>3. Counted(fails', retry)
      BY <1>7 DEF Counted
    <3>4. \A d \in dropped' : d.why = "attempts" => d.to \notin Pending' /\ d.to \in enqueued
      BY <1>11, <2>1, <2>7 DEF CountInv, PlaceInv
    <3> QED BY <1>1, <2>3, <2>4, <2>5, <3>1, <3>2, <3>3, <3>4 DEF CountInv
  <2>10. NothingLost'
    BY <1>1, <1>8, <2>1, <2>7 DEF NothingLost
  <2>11. GiveUpIsEarned'
    <3>1. \A h \in Handover : fails'[h] <= MaxAttempts
      BY <1>10, <2>1, <2>2, QueueAssumption DEF GiveUpIsEarned
    <3>2. ASSUME NEW d \in dropped', d.why = "attempts"
          PROVE  fails'[d.to] = MaxAttempts
      <4>1. CASE exhausted /\ d.to \in hs
        BY <1>8, <1>10, <2>2, <4>1, QueueAssumption
      <4>2. CASE d \in dropped
        <5>1. d.to \in Handover \ hs
          BY <1>11, <3>2, <4>2 DEF CountInv, TypeOK
        <5> QED BY <2>1, <3>2, <4>2, <5>1 DEF GiveUpIsEarned
      <4> QED BY <2>1, <4>1, <4>2
    <3> QED BY <3>1, <3>2 DEF GiveUpIsEarned
  <2> QED BY <2>5, <2>6, <2>8, <2>9, <2>10, <2>11
<1> QED BY <1>9, <1>14, <1>15, <1>16

(* Draining moves the whole queue into the pass, or abandons it. *)
LEMMA DrainStep ==
    ASSUME QueueInv, pass.kind \in {"select", "flushRetry"},
           NEW kind \in {"drain", "flushDrain"}, NEW failed \in BOOLEAN, Drain(kind, failed)
    PROVE  /\ queue' = EmptyQueue
           /\ pass' \in Pass /\ pass'.kind = kind /\ pass'.work = <<>> /\ pass'.kept = <<>>
           /\ Waiting(pass'.batches) \subseteq Waiting(queue)
           /\ Waiting(queue) \subseteq Waiting(pass'.batches) \cup Dropped'
           /\ dropped' \subseteq [to : Handover, why : Reasons]
           /\ Dropped \subseteq Dropped'
           /\ \A d \in dropped' : d.why = "attempts" => d \in dropped
           /\ ~ pass'.failed => ~ failed
<1> USE DEF QueueInv
<1> DEFINE bs == IF instance THEN queue ELSE EmptyQueue
           m == failed \/ (~ instance /\ queue # EmptyQueue)
<1>2. queue \in [Peers -> Seq(Items)] /\ EmptyQueue \in [Peers -> Seq(Items)]
      /\ Waiting(EmptyQueue) = {}
  BY WaitingEmpty DEF TypeOK
<1>3. queue' = EmptyQueue
  BY DEF Drain
<1>4. pass' = [Idle EXCEPT !.kind = kind, !.batches = bs, !.failed = m]
  BY DEF Drain
<1>5. m \in BOOLEAN /\ (~ m => ~ failed) /\ bs \in [Peers -> Seq(Items)]
  BY <1>2
<1>6. /\ pass' = [kind |-> kind, work |-> <<>>, kept |-> <<>>, batches |-> bs,
                  since |-> 0, failed |-> m]
  BY <1>4, Zenon DEF Idle
<1> HIDE DEF bs, m
<1>7. /\ pass' \in Pass /\ pass'.kind = kind /\ pass'.work = <<>> /\ pass'.kept = <<>>
      /\ pass'.batches = bs /\ pass'.failed = m
  <2>1. kind \in {"select", "retry", "flushRetry", "drain", "flushDrain"} /\ 0 \in Nat
        /\ <<>> \in Seq(Batch)
    OBVIOUS
  <2> QED BY <1>5, <1>6, <2>1 DEF Pass
<1>8. CASE instance
  <2>1. dropped' = dropped /\ bs = queue
    BY <1>8 DEF Drain, bs
  <2>2. Dropped' = Dropped
    BY <2>1 DEF Dropped
  <2> QED BY <1>3, <1>5, <1>7, <2>1, <2>2 DEF TypeOK
<1>9. CASE ~ instance
  <2>1. /\ dropped' = dropped \cup Drop(Waiting(queue), "instance")
        /\ bs = EmptyQueue
    BY <1>9 DEF Drain, bs
  <2>2. /\ dropped' \subseteq [to : Handover, why : Reasons]
        /\ Dropped' = Dropped \cup Waiting(queue)
        /\ \A d \in dropped' : d \in dropped \/ d.why = "instance"
    <3>1. Waiting(queue) \in SUBSET Handover
      BY <1>2, WaitingHandover
    <3>2. "instance" \in Reasons
      BY DEF Reasons
    <3> QED BY <2>1, <3>1, <3>2, DroppedGrows, Zenon
  <2> QED BY <1>2, <1>3, <1>5, <1>7, <2>1, <2>2
<1> QED BY <1>8, <1>9

(* The start of a drain, by the timer or after flush_retry_queue. *)
LEMMA DrainInv ==
    ASSUME QueueInv, pass.kind \in {"select", "flushRetry"}, pass.work = <<>>,
           NEW kind \in {"drain", "flushDrain"}, NEW failed \in BOOLEAN, Drain(kind, failed),
           retry' \in {retry, pass.kept}, In(retry') = In(retry) \cup In(pass.kept),
           UNCHANGED <<cmds, link, instance, received, enqueued, fails, flush>>
    PROVE  QueueInv'
<1> USE DEF QueueInv
<1>1. /\ queue' = EmptyQueue
      /\ pass' \in Pass /\ pass'.kind = kind /\ pass'.work = <<>> /\ pass'.kept = <<>>
      /\ Waiting(pass'.batches) \subseteq Waiting(queue)
      /\ Waiting(queue) \subseteq Waiting(pass'.batches) \cup Dropped'
      /\ dropped' \subseteq [to : Handover, why : Reasons]
      /\ Dropped \subseteq Dropped'
      /\ \A d \in dropped' : d.why = "attempts" => d \in dropped
  BY DrainStep
<1>2. pass.batches = EmptyQueue
  BY DEF PassInv
<1>3. /\ In(<<>>) = {} /\ Apart(<<>>) /\ Waiting(EmptyQueue) = {}
      /\ EmptyQueue \in [Peers -> Seq(Items)] /\ \A f : Counted(f, <<>>)
  BY InEmpty, WaitingEmpty DEF Counted
<1>4. retry' \in Seq(Batch)
  BY DEF TypeOK, Pass
<1>5. TypeOK'
  BY <1>1, <1>3, <1>4 DEF TypeOK
<1>6. PassInv'
  BY <1>1 DEF PassInv
<1>7. Pending' \subseteq Pending /\ Pending \subseteq Pending' \cup Dropped'
  BY <1>1, <1>2, <1>3 DEF Pending
<1>8. PlaceInv'
  BY <1>1, <1>3, <1>7 DEF PlaceInv
<1>9. CountInv'
  BY <1>1, <1>3, <1>7 DEF CountInv
<1>10. NothingLost'
  BY <1>1, <1>7 DEF NothingLost, Delivered
<1>11. GiveUpIsEarned'
  BY <1>1 DEF GiveUpIsEarned
<1> QED BY <1>5, <1>6, <1>8, <1>9, <1>10, <1>11

LEMMA StartDrainInv ==
    ASSUME QueueInv, StartDrain
    PROVE  QueueInv'
<1>1. /\ pass.kind = "select" /\ Drain("drain", FALSE) /\ retry' = retry
      /\ UNCHANGED <<cmds, link, instance, received, enqueued, fails, flush>>
  BY Zenon DEF StartDrain
<1>2. pass.work = <<>> /\ pass.kept = <<>> /\ In(<<>>) = {}
  BY <1>1, InEmpty DEF QueueInv, PassInv
<1> QED BY <1>1, <1>2, DrainInv, Zenon

LEMMA FlushRetriedInv ==
    ASSUME QueueInv, FlushRetried
    PROVE  QueueInv'
<1>1. /\ pass.kind = "flushRetry" /\ pass.work = <<>> /\ Drain("flushDrain", pass.kept # <<>>)
      /\ retry' = pass.kept
      /\ UNCHANGED <<cmds, link, instance, received, enqueued, fails, flush>>
  BY DEF FlushRetried
<1>2. retry = <<>> /\ In(<<>>) = {} /\ (pass.kept # <<>>) \in BOOLEAN
  BY <1>1, InEmpty DEF QueueInv, PassInv, TypeOK, Pass
<1> QED BY <1>1, <1>2, DrainInv, Zenon

LEMMA QueueInvNext == QueueInv /\ [Next]_vars => QueueInv'
<1> SUFFICES ASSUME QueueInv, [Next]_vars
             PROVE  QueueInv'
  OBVIOUS
<1>1. ASSUME NEW p \in Peers, NEW x \in Items, Enqueue(p, x) \/ SendEntries(p, x)
      PROVE  QueueInv'
  BY <1>1, EnqueueInv, SendEntriesInv
<1>2. CASE Flush
  BY <1>2, FlushInvStep
<1>3. CASE HandleSend
  BY <1>3, HandleSendInv
<1>4. CASE StartRetries
  BY <1>4, StartRetriesInv
<1>5. CASE StartFlush
  BY <1>5, StartFlushInv
<1>6. CASE RetryOne
  BY <1>6, RetryOneInv
<1>7. CASE EndRetries
  BY <1>7, EndRetriesInv
<1>8. CASE StartDrain
  BY <1>8, StartDrainInv
<1>9. CASE FlushRetried
  BY <1>9, FlushRetriedInv
<1>10. CASE EndDrain
  BY <1>10, EndDrainInv
<1>11. ASSUME NEW p \in Peers, Unreadable(p) \/ SendBatch(p)
       PROVE  QueueInv'
  BY <1>11, UnreadableInv, SendBatchInv
<1>12. ASSUME NEW p \in Peers, LinkDown(p) \/ LinkUp(p)
       PROVE  QueueInv'
  <2>1. /\ link' \subseteq Peers /\ instance' \in BOOLEAN
        /\ UNCHANGED <<queue, retry, cmds, pass, received, enqueued, dropped, fails, flush>>
    BY <1>12 DEF LinkDown, LinkUp, QueueInv, TypeOK
  <2> QED BY <2>1, OutsideInv
<1>13. CASE Tick
  BY <1>13, TickInv
<1>14. CASE InstanceDropped
  <2>1. /\ link' \subseteq Peers /\ instance' \in BOOLEAN
        /\ UNCHANGED <<queue, retry, cmds, pass, received, enqueued, dropped, fails, flush>>
    BY <1>14, Zenon DEF InstanceDropped, QueueInv, TypeOK
  <2> QED BY <2>1, OutsideInv
<1>15. CASE Restart
  BY <1>15, RestartInv
<1>16. CASE UNCHANGED vars
  <2>1. /\ link' \subseteq Peers /\ instance' \in BOOLEAN
        /\ UNCHANGED <<queue, retry, cmds, pass, received, enqueued, dropped, fails, flush>>
    BY <1>16 DEF vars, QueueInv, TypeOK
  <2> QED BY <2>1, OutsideInv
<1> QED BY <1>1, <1>2, <1>3, <1>4, <1>5, <1>6, <1>7, <1>8, <1>9, <1>10, <1>11, <1>12,
           <1>13, <1>14, <1>15, <1>16 DEF Next

LEMMA QueueInvAlways == Spec => []QueueInv
  BY QueueInvInit, QueueInvNext, PTL DEF Spec

(* Whatever is handed to the engine for a peer is stored there, waits in   *)
(* the engine or was abandoned in one of the named ways, through every     *)
(* drain, retry, flush, lost link and restart.                             *)
THEOREM NothingLostAlways == Spec => []NothingLost
<1>1. QueueInv => NothingLost
  BY DEF QueueInv
<1> QED BY <1>1, QueueInvAlways, PTL

(* A batch is given up after exactly MaxAttempts failed sends, and never   *)
(* sent again.                                                             *)
THEOREM GiveUpIsEarnedAlways == Spec => []GiveUpIsEarned
<1>1. QueueInv => GiveUpIsEarned
  BY DEF QueueInv
<1> QED BY <1>1, QueueInvAlways, PTL

NoFlush(cs) == \A i \in DOMAIN cs : cs[i].kind # "flush"

(* One flush waits in the channel, and no command behind it hands over     *)
(* anything of mark.                                                       *)
FlushIn(cs, mark) ==
    \E i \in DOMAIN cs :
        /\ cs[i].kind = "flush"
        /\ \A j \in DOMAIN cs : j # i => cs[j].kind = "send"
        /\ \A j \in DOMAIN cs : j > i => Of(cs[j]) \cap mark = {}

(* Where a flush is, and what can no longer hold an entry it covers.       *)
FlushInv ==
    /\ flush.mark \subseteq enqueued
    /\ flush.state # "waiting" => NoFlush(cmds) /\ pass.kind \notin {"flushRetry", "flushDrain"}
    /\ flush.state = "waiting" =>
         \/ FlushIn(cmds, flush.mark) /\ pass.kind \notin {"flushRetry", "flushDrain"}
         \/ /\ NoFlush(cmds) /\ pass.kind = "flushRetry"
            /\ flush.mark \cap Sends(cmds) = {}
         \/ /\ NoFlush(cmds) /\ pass.kind = "flushDrain"
            /\ ~ pass.failed =>
                 flush.mark \cap (Sends(cmds) \cup Waiting(queue) \cup In(retry)) = {}

LEMMA FlushInAppend ==
    ASSUME NEW cs \in Seq(Command), NEW c \in Command, NEW mark
    PROVE  /\ NoFlush(cs) /\ c.kind = "send" => NoFlush(Append(cs, c))
           /\ NoFlush(cs) /\ c.kind = "flush" => FlushIn(Append(cs, c), mark)
           /\ FlushIn(cs, mark) /\ c.kind = "send" /\ Of(c) \cap mark = {}
                => FlushIn(Append(cs, c), mark)
<1> DEFINE n == Len(cs)
           d == Append(cs, c)
<1>1. /\ n \in Nat /\ DOMAIN cs = 1..n /\ DOMAIN d = 1..(n + 1)
      /\ \A i \in 1..n : d[i] = cs[i]
      /\ d[n + 1] = c
  OBVIOUS
<1>2. \A i \in 1..(n + 1) : i = n + 1 \/ i \in 1..n
  BY <1>1
<1>3. \A i \in 1..n : cs[i].kind \in {"send", "flush"}
  BY <1>1 DEF Command
<1> HIDE DEF n, d
<1>4. NoFlush(cs) /\ c.kind = "send" => NoFlush(d)
  BY <1>1, <1>2 DEF NoFlush
<1>5. ASSUME NoFlush(cs), c.kind = "flush"
      PROVE  FlushIn(d, mark)
  <2>1. n + 1 \in DOMAIN d /\ d[n + 1].kind = "flush"
    BY <1>1, <1>5
  <2>2. \A j \in DOMAIN d : j # n + 1 => d[j].kind = "send"
    BY <1>1, <1>2, <1>3, <1>5 DEF NoFlush
  <2>3. \A j \in DOMAIN d : ~ (j > n + 1)
    BY <1>1
  <2> QED BY <2>1, <2>2, <2>3, Zenon DEF FlushIn
<1>6. ASSUME FlushIn(cs, mark), c.kind = "send", Of(c) \cap mark = {}
      PROVE  FlushIn(d, mark)
  <2>1. PICK i \in 1..n :
          /\ cs[i].kind = "flush"
          /\ \A j \in 1..n : j # i => cs[j].kind = "send"
          /\ \A j \in 1..n : j > i => Of(cs[j]) \cap mark = {}
    BY <1>1, <1>6 DEF FlushIn
  <2>2. i \in DOMAIN d /\ d[i].kind = "flush"
    BY <1>1, <2>1
  <2>3. \A j \in DOMAIN d : j # i => d[j].kind = "send"
    BY <1>1, <1>2, <1>6, <2>1
  <2>4. \A j \in DOMAIN d : j > i => Of(d[j]) \cap mark = {}
    BY <1>1, <1>2, <1>6, <2>1
  <2> QED BY <2>2, <2>3, <2>4, Zenon DEF FlushIn
<1> QED BY <1>4, <1>5, <1>6 DEF d

LEMMA FlushInTail ==
    ASSUME NEW cs \in Seq(Command), cs # <<>>, NEW mark
    PROVE  /\ NoFlush(cs) => Head(cs).kind # "flush" /\ NoFlush(Tail(cs))
           /\ FlushIn(cs, mark) /\ Head(cs).kind = "send" => FlushIn(Tail(cs), mark)
           /\ FlushIn(cs, mark) /\ Head(cs).kind = "flush" =>
                NoFlush(Tail(cs)) /\ mark \cap Sends(Tail(cs)) = {}
<1> DEFINE n == Len(cs)
           t == Tail(cs)
<1>1. /\ n \in Nat \ {0} /\ DOMAIN cs = 1..n /\ DOMAIN t = 1..(n - 1)
      /\ Head(cs) = cs[1]
      /\ \A i \in 1..(n - 1) : t[i] = cs[i + 1] /\ i + 1 \in 1..n
  OBVIOUS
<1> HIDE DEF n, t
<1>2. 1 \in 1..n
  BY <1>1
<1>3. NoFlush(cs) => Head(cs).kind # "flush" /\ NoFlush(t)
  BY <1>1, <1>2 DEF NoFlush
<1>4. ASSUME FlushIn(cs, mark)
      PROVE  /\ Head(cs).kind = "send" => FlushIn(t, mark)
             /\ Head(cs).kind = "flush" => NoFlush(t) /\ mark \cap Sends(t) = {}
  <2>1. PICK i \in 1..n :
          /\ cs[i].kind = "flush"
          /\ \A j \in 1..n : j # i => cs[j].kind = "send"
          /\ \A j \in 1..n : j > i => Of(cs[j]) \cap mark = {}
    BY <1>1, <1>4, Zenon DEF FlushIn
  <2>2. ASSUME Head(cs).kind = "send"
        PROVE  FlushIn(t, mark)
    <3> DEFINE k == i - 1
    <3>1. i # 1
      BY <1>1, <2>1, <2>2
    <3>2. k \in 1..(n - 1) /\ k + 1 = i
      BY <1>1, <3>1
    <3>3. k \in DOMAIN t /\ t[k].kind = "flush"
      BY <1>1, <2>1, <3>2
    <3>4. ASSUME NEW j \in DOMAIN t
          PROVE  /\ j # k => t[j].kind = "send"
                 /\ j > k => Of(t[j]) \cap mark = {}
      <4>1. j + 1 \in 1..n /\ (j # k => j + 1 # i) /\ (j > k => j + 1 > i) /\ t[j] = cs[j + 1]
        BY <1>1, <3>2
      <4> QED BY <2>1, <4>1
    <3> HIDE DEF k
    <3> QED BY <3>3, <3>4, Zenon DEF FlushIn
  <2>3. ASSUME Head(cs).kind = "flush"
        PROVE  NoFlush(t) /\ mark \cap Sends(t) = {}
    <3>1. i = 1
      BY <1>1, <1>2, <2>1, <2>3
    <3>2. ASSUME NEW j \in DOMAIN t
          PROVE  t[j].kind # "flush" /\ Of(t[j]) \cap mark = {}
      <4>1. j + 1 \in 1..n /\ j + 1 # i /\ j + 1 > i /\ t[j] = cs[j + 1]
        BY <1>1, <3>1
      <4>2. cs[j + 1].kind = "send" /\ Of(cs[j + 1]) \cap mark = {}
        BY <2>1, <4>1
      <4> QED BY <4>1, <4>2
    <3>3. mark \cap Sends(t) = {}
      BY <3>2, SendsElements
    <3> QED BY <3>2, <3>3 DEF NoFlush
  <2> QED BY <2>2, <2>3
<1> QED BY <1>3, <1>4 DEF t

LEMMA FlushInvInit == Init => FlushInv
  BY DEF Init, FlushInv, NoFlush, Idle

(* Handing over more leaves the barrier: what is new is not in mark. *)
LEMMA FlushInvMore ==
    ASSUME QueueInv, FlushInv, NEW p \in Peers, NEW x \in Items,
           Enqueue(p, x) \/ SendEntries(p, x)
    PROVE  FlushInv'
<1> USE DEF QueueInv, FlushInv
<1> DEFINE h == <<p, x>>
<1>1. h \notin enqueued /\ UNCHANGED <<retry, pass, flush>> /\ enqueued \subseteq enqueued'
  BY DEF Enqueue, SendEntries
<1>2. h \notin flush.mark
  BY <1>1
<1>3. CASE Enqueue(p, x)
  <2>1. cmds' = cmds /\ queue' = [queue EXCEPT ![p] = Append(queue[p], x)]
    BY <1>3 DEF Enqueue
  <2>2. Waiting(queue') \subseteq Waiting(queue) \cup {h}
    <3>1. queue \in [Peers -> Seq(Items)] /\ Append(queue[p], x) \in Seq(Items)
      BY DEF TypeOK
    <3>2. Waiting(queue') = (Waiting(queue) \ To(p, queue[p])) \cup To(p, Append(queue[p], x))
      BY <2>1, <3>1, WaitingExcept, Zenon
    <3>3. To(p, Append(queue[p], x)) = To(p, queue[p]) \cup {h}
      BY ToAppend DEF TypeOK
    <3>4. To(p, queue[p]) \subseteq Waiting(queue)
      BY DEF Waiting
    <3> QED BY <3>2, <3>3, <3>4
  <2> HIDE DEF h
  <2> QED BY <1>1, <1>2, <2>1, <2>2, Zenon
<1>4. CASE SendEntries(p, x)
  <2> DEFINE c == [kind |-> "send", peer |-> p, entries |-> <<x>>]
  <2>1. queue' = queue /\ cmds' = Append(cmds, c)
    BY <1>4 DEF SendEntries
  <2>2. c \in Command /\ c.kind = "send" /\ Of(c) = {h}
    <3>1. DOMAIN <<x>> = {1} /\ <<x>>[1] = x /\ <<x>> \in Seq(Items)
      OBVIOUS
    <3>2. c \in Command /\ c.kind = "send" /\ c.peer = p /\ c.entries = <<x>>
      BY <3>1 DEF Command
    <3>3. To(p, <<x>>) = {h}
      BY <3>1 DEF To
    <3> QED BY <3>2, <3>3 DEF Of
  <2> HIDE DEF c, h
  <2>3. cmds \in Seq(Command) /\ Of(c) \cap flush.mark = {}
    BY <1>2, <2>2 DEF TypeOK
  <2>4. Sends(cmds') = Sends(cmds) \cup {h}
    BY <2>1, <2>2, <2>3, SendsAppend
  <2>5. /\ NoFlush(cmds) => NoFlush(cmds')
        /\ FlushIn(cmds, flush.mark) => FlushIn(cmds', flush.mark)
    BY <2>1, <2>2, <2>3, FlushInAppend, Zenon
  <2> QED BY <1>1, <1>2, <2>1, <2>4, <2>5
<1> QED BY <1>3, <1>4

LEMMA FlushInvNext == QueueInv /\ FlushInv /\ [Next]_vars => FlushInv'
<1> SUFFICES ASSUME QueueInv, FlushInv, [Next]_vars
             PROVE  FlushInv'
  OBVIOUS
<1> USE DEF QueueInv
<1>0. cmds \in Seq(Command) /\ pass \in Pass /\ pass.failed \in BOOLEAN
      /\ retry \in Seq(Batch) /\ pass.kept \in Seq(Batch)
  BY DEF TypeOK, Pass
<1>a. ASSUME UNCHANGED <<cmds, flush, enqueued>>,
             pass'.kind \notin {"flushRetry", "flushDrain"}, pass.kind \notin {"flushRetry", "flushDrain"}
      PROVE  FlushInv'
  BY <1>a DEF FlushInv
<1>b. ASSUME UNCHANGED <<cmds, flush, enqueued, queue>>, pass'.kind = pass.kind,
             In(retry') = In(retry), pass'.failed = pass.failed
      PROVE  FlushInv'
  BY <1>b DEF FlushInv
<1>1. ASSUME NEW p \in Peers, NEW x \in Items, Enqueue(p, x) \/ SendEntries(p, x)
      PROVE  FlushInv'
  BY <1>1, FlushInvMore
<1>2. CASE Flush
  <2> DEFINE c == [kind |-> "flush"]
  <2>1. /\ flush.state # "waiting" /\ cmds' = Append(cmds, c) /\ pass' = pass /\ enqueued' = enqueued
        /\ flush'.state = "waiting" /\ flush'.mark = enqueued
    BY <1>2 DEF Flush
  <2>2. c \in Command /\ c.kind = "flush"
    BY DEF Command
  <2> HIDE DEF c
  <2>3. NoFlush(cmds) /\ pass.kind \notin {"flushRetry", "flushDrain"}
    BY <2>1 DEF FlushInv
  <2>4. FlushIn(cmds', flush'.mark)
    BY <1>0, <2>1, <2>2, <2>3, FlushInAppend, Zenon
  <2> QED BY <2>1, <2>3, <2>4 DEF FlushInv
<1>3. CASE HandleSend
  <2>1. /\ pass.kind = "select" /\ cmds # <<>> /\ Head(cmds).kind = "send" /\ cmds' = Tail(cmds)
        /\ UNCHANGED <<pass, enqueued, flush>>
    BY <1>3 DEF HandleSend
  <2>2. /\ NoFlush(cmds) => NoFlush(cmds')
        /\ FlushIn(cmds, flush.mark) => FlushIn(cmds', flush.mark)
    BY <1>0, <2>1, FlushInTail, Zenon
  <2> QED BY <2>1, <2>2 DEF FlushInv
<1>4. CASE StartRetries
  BY <1>4, <1>a DEF StartRetries, Idle
<1>5. CASE StartFlush
  <2>1. /\ pass.kind = "select" /\ cmds # <<>> /\ Head(cmds).kind = "flush" /\ cmds' = Tail(cmds)
        /\ UNCHANGED <<enqueued, flush>>
        /\ pass'.kind = "flushRetry"
    BY <1>5 DEF StartFlush, Idle
  <2>2. /\ ~ NoFlush(cmds)
        /\ FlushIn(cmds, flush.mark) => NoFlush(cmds') /\ flush.mark \cap Sends(cmds') = {}
    BY <1>0, <2>1, FlushInTail, Zenon
  <2>3. flush.state = "waiting" /\ FlushIn(cmds, flush.mark)
    BY <2>1, <2>2 DEF FlushInv
  <2> QED BY <2>1, <2>2, <2>3 DEF FlushInv
<1>6. CASE RetryOne
  <2>1. /\ UNCHANGED <<cmds, flush, enqueued, queue, retry>>
    BY <1>6 DEF RetryOne
  <2>2. pass'.kind = pass.kind /\ pass'.failed = pass.failed
    <3>1. PICK k : pass' = [pass EXCEPT !.work = Tail(@), !.kept = k]
      BY <1>6, Zenon DEF RetryOne
    <3> QED BY <1>0, <3>1 DEF Pass
  <2> QED BY <1>b, <2>1, <2>2
<1>7. CASE EndRetries
  BY <1>7, <1>a DEF EndRetries, Idle
<1>8. CASE StartDrain
  BY <1>8, <1>a DEF StartDrain, Drain, Idle
<1>9. CASE FlushRetried
  <2>1. /\ pass.kind = "flushRetry" /\ Drain("flushDrain", pass.kept # <<>>)
        /\ retry' = pass.kept
        /\ UNCHANGED <<cmds, instance, enqueued, flush>>
    BY <1>9 DEF FlushRetried
  <2>3. /\ queue' = EmptyQueue /\ pass'.kind = "flushDrain"
        /\ ~ pass'.failed => pass.kept = <<>>
    BY <2>1, DrainStep, Zenon
  <2>4. ~ pass'.failed => In(retry') = {} /\ Waiting(queue') = {}
    BY <2>1, <2>3, InEmpty, WaitingEmpty
  <2>5. /\ flush.state = "waiting" /\ NoFlush(cmds) /\ flush.mark \cap Sends(cmds) = {}
        /\ flush.mark \subseteq enqueued
    BY <2>1 DEF FlushInv
  <2> QED BY <2>1, <2>3, <2>4, <2>5 DEF FlushInv
<1>10. CASE EndDrain
  <2>1. /\ pass.kind \in {"drain", "flushDrain"} /\ UNCHANGED <<cmds, enqueued>>
        /\ pass'.kind = "select"
    BY <1>10 DEF EndDrain, Idle
  <2>2. CASE pass.kind = "drain"
    <3>1. flush' = flush
      BY <1>10, <2>2 DEF EndDrain
    <3> QED BY <1>a, <2>1, <2>2, <3>1
  <2>3. CASE pass.kind = "flushDrain"
    <3>1. flush'.state \in {"ok", "err"} /\ flush'.mark = flush.mark
      BY <1>10, <2>3 DEF EndDrain, TypeOK
    <3> QED BY <2>1, <2>3, <3>1 DEF FlushInv
  <2> QED BY <2>1, <2>2, <2>3
<1>11. ASSUME NEW p \in Peers, Unreadable(p)
       PROVE  FlushInv'
  <2>1. UNCHANGED <<cmds, flush, enqueued, queue, retry>>
    BY <1>11 DEF Unreadable
  <2>2. PICK i : pass' = [pass EXCEPT !.batches[p] = Without(@, i)]
    BY <1>11 DEF Unreadable
  <2>3. pass'.kind = pass.kind /\ pass'.failed = pass.failed
    BY <1>0, <2>2 DEF Pass
  <2> QED BY <1>b, <2>1, <2>3
<1>12. ASSUME NEW p \in Peers, SendBatch(p)
       PROVE  FlushInv'
  <2>1. UNCHANGED <<cmds, flush, enqueued, queue>>
    BY <1>12 DEF SendBatch
  <2>2. \/ /\ pass' = [pass EXCEPT !.batches[p] = <<>>, !.failed = @ \/ FALSE]
           /\ retry' = retry
        \/ pass' = [pass EXCEPT !.batches[p] = <<>>, !.failed = @ \/ TRUE]
    BY <1>12, Zenon DEF SendBatch
  <2>3. CASE pass' = [pass EXCEPT !.batches[p] = <<>>, !.failed = @ \/ FALSE] /\ retry' = retry
    <3>1. pass'.kind = pass.kind /\ pass'.failed = pass.failed
      BY <1>0, <2>3 DEF Pass
    <3> QED BY <1>b, <2>1, <2>3, <3>1
  <2>4. CASE pass' = [pass EXCEPT !.batches[p] = <<>>, !.failed = @ \/ TRUE]
    <3>1. pass'.kind = pass.kind /\ pass'.failed
      BY <1>0, <2>4, Zenon DEF Pass
    <3> QED BY <2>1, <3>1 DEF FlushInv
  <2> QED BY <2>2, <2>3, <2>4
<1>13. CASE Tick
  <2>1. retry' = Older(retry) /\ UNCHANGED <<cmds, flush, enqueued, queue>>
    BY <1>13 DEF Tick
  <2>2. pass'.kind = pass.kind /\ pass'.failed = pass.failed
    BY <1>0, <1>13 DEF Tick, Pass
  <2>3. In(retry') = In(retry)
    BY <1>0, <2>1, OlderSame
  <2> QED BY <1>b, <2>1, <2>2, <2>3
<1>14. CASE Restart
  <2>1. cmds' = <<>> /\ pass' = Idle /\ flush' = [state |-> "none", mark |-> {}]
    BY <1>14 DEF Restart
  <2>2. cmds' = <<>> /\ pass'.kind = "select" /\ flush'.state = "none" /\ flush'.mark = {}
    BY <2>1 DEF Idle
  <2>3. NoFlush(<<>>)
    BY DEF NoFlush
  <2> QED BY <2>2, <2>3, Zenon DEF FlushInv
<1>15. ASSUME NEW p \in Peers, LinkDown(p) \/ LinkUp(p)
       PROVE  FlushInv'
  BY <1>15, <1>b DEF LinkDown, LinkUp
<1>16. CASE InstanceDropped \/ UNCHANGED vars
  BY <1>16, <1>b DEF InstanceDropped, vars
<1> QED BY <1>1, <1>2, <1>3, <1>4, <1>5, <1>6, <1>7, <1>8, <1>9, <1>10, <1>11, <1>12,
           <1>13, <1>14, <1>15, <1>16 DEF Next

(* A flush is answered by the end of the drain it asked for; with no       *)
(* failure counted by then, no place of the engine holds what it covers.   *)
LEMMA FlushAnswer ==
    ASSUME QueueInv, FlushInv, [Next]_vars, flush.state = "waiting", flush'.state = "ok"
    PROVE  flush.mark \subseteq Delivered' \cup Dropped'
<1> USE DEF QueueInv
<1>1. EndDrain
  <2>1. flush' # flush
    OBVIOUS
  <2>2. ~ Flush
    BY DEF Flush
  <2>3. ~ Restart
    BY DEF Restart
  <2>4. \A p \in Peers, x \in Items : ~ Enqueue(p, x) /\ ~ SendEntries(p, x)
    BY <2>1 DEF Enqueue, SendEntries
  <2>5. \A p \in Peers : ~ Unreadable(p) /\ ~ SendBatch(p) /\ ~ LinkDown(p) /\ ~ LinkUp(p)
    BY <2>1, Zenon DEF Unreadable, SendBatch, LinkDown, LinkUp
  <2>6. ~ HandleSend /\ ~ StartRetries /\ ~ StartFlush /\ ~ RetryOne /\ ~ EndRetries
    BY <2>1, Zenon DEF HandleSend, StartRetries, StartFlush, RetryOne, EndRetries
  <2>7. ~ StartDrain /\ ~ FlushRetried /\ ~ Tick /\ ~ InstanceDropped /\ ~ UNCHANGED vars
    BY <2>1, Zenon DEF StartDrain, FlushRetried, Tick, InstanceDropped, vars
  <2> QED BY <2>2, <2>3, <2>4, <2>5, <2>6, <2>7 DEF Next
<1>2. /\ pass.kind = "flushDrain" /\ ~ pass.failed /\ pass.batches = EmptyQueue
      /\ UNCHANGED <<received, dropped>>
  BY <1>1 DEF EndDrain, TypeOK
<1>3. Delivered' = Delivered /\ Dropped' = Dropped
  BY <1>2 DEF Delivered, Dropped
<1>4. /\ flush.mark \cap (Sends(cmds) \cup Waiting(queue) \cup In(retry)) = {}
      /\ flush.mark \subseteq enqueued
  BY <1>2 DEF FlushInv
<1>5. pass.work = <<>> /\ pass.kept = <<>> /\ In(<<>>) = {} /\ Waiting(pass.batches) = {}
  BY <1>2, InEmpty, WaitingEmpty DEF PassInv
<1> QED BY <1>3, <1>4, <1>5 DEF NothingLost, Pending

(* flush answers Ok only when everything handed over before the call is    *)
(* stored at its peer or abandoned.                                        *)
THEOREM FlushIsABarrierAlways == Spec => FlushIsABarrier
<1>1. QueueInv /\ FlushInv /\ [Next]_vars =>
        [flush.state = "waiting" /\ flush'.state = "ok"
           => flush.mark \subseteq (Delivered \cup Dropped)']_vars
  BY FlushAnswer
<1>2. Spec => []FlushInv
  BY FlushInvInit, FlushInvNext, QueueInvAlways, PTL DEF Spec
<1> QED BY <1>1, <1>2, QueueInvAlways, PTL DEF Spec, FlushIsABarrier
=============================================================================
