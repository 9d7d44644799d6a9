---------------------------- MODULE EventProofs -----------------------------
(***************************************************************************)
(* That write events leave no gap when every batch is checked and stored   *)
(* whole, for every number of entries and tasks and every graph of remote  *)
(* entries.                                                                *)
(***************************************************************************)
EXTENDS SnapshotProofs

(* Every batch is checked for missing parents and stored whole, and         *)
(* callbacks are registered through default handles.                        *)
WholeBatches ==
    /\ Unchecked = {} /\ BackendMayFail = {} /\ MaxCrashes = 0
    /\ AllowUnverified \cap Callbacks = {}

(* What a callback's snapshot has seen is held with its history, and so is  *)
(* the cursor it will register with.                                        *)
SeenInv(c) ==
    /\ \A e \in seen[c] : parents[e] \subseteq seen[c]
    /\ pc[c] = "register" => view[c] \subseteq seen[c]

(* The parents of a checked batch are held or in it; so are those of every  *)
(* entry while a batch is being stored; a verify pass fires at the raw tips *)
(* there are.                                                               *)
WholeInv ==
    /\ \A d \in Receivers : pc[d] \in {"wantStore", "store"} =>
         \A e \in batch[d] : parents[e] \subseteq held \cup batch[d]
    /\ \A e \in held : \A q \in parents[e] :
         q \in held \/ \E d \in Receivers : pc[d] = "store" /\ q \in batch[d]
    /\ \A p \in Process : pc[p] = "verify" => fireTips = rawTips

(* The history of a callback's cursor is held whole, and all of it was      *)
(* below the first cursor or has been enumerated.                           *)
EventInv(c) ==
    pc[c] = "on" =>
        /\ cursor[c] \subseteq held
        /\ \A e \in Ancestry(cursor[c]) : parents[e] \subseteq held
        /\ Ancestry(cursor[c]) \subseteq Ancestry(first[c]) \cup reported[c]

GapInv == /\ SnapshotInv /\ WholeInv
          /\ \A c \in Callbacks : SeenInv(c) /\ EventInv(c)

(* Where links stay inside H, what is below `to` is what the walk of        *)
(* ids_added collects before it meets `from`, or is below `from`.           *)
LEMMA BracketCovers ==
    ASSUME NEW par, NEW H \in SUBSET ID, \A e \in H : par[e] \subseteq H,
           NEW from \in SUBSET H, NEW to \in SUBSET H
    PROVE  /\ Reach(par, ID \ from, to) \subseteq H
           /\ Reach(par, H, to)
                \subseteq Reach(par, ID \ from, to) \cup Reach(par, H, from)
<1> DEFINE W == Reach(par, ID \ from, to)
           F == Reach(par, H, from)
           C == W \cup F
<1>1. IsFiniteSet(H) /\ IsFiniteSet(ID \ from)
  BY IDFinite
<1>2. W \subseteq H
  <2>1. to \cap (ID \ from) \subseteq H
    OBVIOUS
  <2>2. \A e \in H : par[e] \cap (ID \ from) \subseteq H
    OBVIOUS
  <2> QED BY <1>1, <2>1, <2>2, ReachIsLeast, Zenon
<1>3. /\ to \cap (ID \ from) \subseteq W
      /\ \A e \in W : par[e] \cap (ID \ from) \subseteq W
  BY <1>1, ReachIsClosed, Zenon
<1>4. /\ from \cap H \subseteq F /\ F \subseteq H
      /\ \A e \in F : par[e] \cap H \subseteq F
  BY <1>1, ReachIsClosed, Zenon
<1> HIDE DEF W, F
<1>5. to \cap H \subseteq C
  BY <1>3, <1>4
<1>6. \A e \in C : par[e] \cap H \subseteq C
  BY <1>2, <1>3, <1>4
<1> HIDE DEF C
<1>7. Reach(par, H, to) \subseteq C
  BY <1>1, <1>5, <1>6, ReachIsLeast, Zenon
<1> QED
  BY <1>2, <1>7, Zenon DEF C, W, F

(* What a set of entries has below it does not change as more is held, if   *)
(* it is held whole.                                                        *)
LEMMA WholeHistoryStays ==
    ASSUME NEW par, NEW H, IsFiniteSet(H), NEW X, X \subseteq H,
           \A e \in Reach(par, H, X) : par[e] \subseteq H,
           NEW par2, NEW H2, IsFiniteSet(H2), H \subseteq H2,
           \A e \in H : par2[e] = par[e]
    PROVE  Reach(par2, H2, X) \subseteq Reach(par, H, X)
<1> DEFINE R == Reach(par, H, X)
<1>1. /\ R \subseteq H /\ X \cap H \subseteq R
      /\ \A e \in R : par[e] \cap H \subseteq R
  BY ReachIsClosed, Zenon
<1>2. \A e \in R : par[e] \subseteq H
  OBVIOUS
<1> HIDE DEF R
<1>3. X \cap H2 \subseteq R
  BY <1>1
<1>4. \A e \in R : par2[e] \cap H2 \subseteq R
  BY <1>1, <1>2
<1>5. Reach(par2, H2, X) \subseteq R
  BY <1>3, <1>4, ReachIsLeast, Zenon
<1> QED
  BY <1>5 DEF R

(* The raw tips are never all below a cursor: the highest entry is one of   *)
(* them.                                                                    *)
LEMMA NeverBackward ==
    ASSUME SnapshotInv, NEW from, from \subseteq held, from # {}
    PROVE  rawTips # {} /\ ~ Backward(from, rawTips)
<1>1. TypeOK /\ HeightInv /\ held \subseteq ID /\ held # {} /\ IsFiniteSet(held)
  BY IDFinite DEF SnapshotInv, LockInv, held
<1>2. \A e \in held : height[e] \in Nat
  BY <1>1 DEF TypeOK
<1>3. PICK t \in held : \A o \in held : height[o] <= height[t]
  BY <1>1, <1>2, Highest
<1>4. t \in rawTips
  <2> SUFFICES ASSUME NEW o \in held, t \in parents[o] PROVE FALSE
    BY DEF rawTips, Tips
  <2>1. height[t] < height[o] /\ height[o] <= height[t]
    BY <1>1, <1>3 DEF HeightInv
  <2> QED BY <1>2, <2>1
<1>5. ASSUME NEW a \in from, height[a] > height[t] PROVE FALSE
  BY <1>2, <1>3, <1>5
<1> QED
  BY <1>4, <1>5 DEF Backward

(* How one step moves callback c: to where it is not registered; not at     *)
(* all; to the cursor it registers with; or by an event at the raw tips,    *)
(* with the lock held by a task that is not storing.                        *)
EventMoves(c) ==
    \/ pc'[c] # "on"
    \/ /\ pc[c] = "on" /\ cursor'[c] = cursor[c] /\ first'[c] = first[c]
       /\ reported'[c] = reported[c]
    \/ /\ pc[c] = "register" /\ cursor'[c] = view[c] /\ first'[c] = view[c]
       /\ UNCHANGED <<status, parents>>
    \/ /\ pc[c] = "on" /\ cursor'[c] = rawTips /\ first'[c] = first[c]
       /\ reported'[c] = reported[c] \cup IdsAdded(cursor[c], rawTips)
       /\ \A d \in Receivers : pc[d] # "store"
       /\ UNCHANGED <<status, parents>>

(* What a step keeps of a callback.  An event enumerates what is below the  *)
(* raw tips down to the cursor, and the rest was enumerated before.         *)
LEMMA EventInvMoves ==
    ASSUME GapInv, [Next]_vars, NEW c \in Callbacks, EventMoves(c)
    PROVE  EventInv(c)'
<1>0. /\ SnapshotInv /\ TypeOK /\ LockInv /\ WholeInv /\ EventInv(c)
      /\ c \in Viewers /\ SeenInv(c) /\ seen[c] \subseteq held
  BY DEF GapInv, SnapshotInv, LockInv, HeldInv, Viewers
<1>1. /\ held \subseteq ID /\ held' \subseteq ID /\ held \subseteq held'
      /\ IsFiniteSet(held) /\ IsFiniteSet(held')
  BY <1>0, IDFinite, HeldGrows DEF held
<1>2. \A e \in held : parents'[e] = parents[e]
  BY <1>0, AncestryGrows
<1> SUFFICES ASSUME pc'[c] = "on"
             PROVE  /\ cursor'[c] \subseteq held'
                    /\ \A e \in Reach(parents', held', cursor'[c]) :
                         parents'[e] \subseteq held'
                    /\ Reach(parents', held', cursor'[c])
                         \subseteq Reach(parents', held', first'[c]) \cup reported'[c]
  BY DEF EventInv, Ancestry
<1>3. CASE /\ pc[c] = "on" /\ cursor'[c] = cursor[c] /\ first'[c] = first[c]
           /\ reported'[c] = reported[c]
  <2>1. /\ cursor[c] \subseteq held
        /\ \A e \in Reach(parents, held, cursor[c]) : parents[e] \subseteq held
        /\ Reach(parents, held, cursor[c])
             \subseteq Reach(parents, held, first[c]) \cup reported[c]
    BY <1>0, <1>3 DEF EventInv, Ancestry
  <2>2. Reach(parents', held', cursor[c]) \subseteq Reach(parents, held, cursor[c])
    BY <1>1, <1>2, <2>1, WholeHistoryStays
  <2>3. Reach(parents, held, first[c]) \subseteq Reach(parents', held', first[c])
    <3>1. /\ first[c] \cap held \subseteq first[c]
          /\ \A e \in held : parents[e] \subseteq parents'[e]
      BY <1>2
    <3> QED BY <1>1, <3>1, ReachGrows
  <2>4. Reach(parents, held, cursor[c]) \subseteq held
    BY ReachInside
  <2> QED BY <1>1, <1>2, <1>3, <2>1, <2>2, <2>3, <2>4
<1>4. CASE /\ pc[c] = "register" /\ cursor'[c] = view[c] /\ first'[c] = view[c]
           /\ UNCHANGED <<status, parents>>
  <2>1. held' = held
    BY <1>4 DEF held
  <2>2. /\ seen[c] \subseteq held
        /\ \A e \in seen[c] : parents[e] \subseteq seen[c]
        /\ view[c] \subseteq seen[c]
    BY <1>0, <1>4 DEF SeenInv
  <2>3. Reach(parents, held, view[c]) \subseteq seen[c]
    <3>1. /\ view[c] \cap held \subseteq seen[c]
          /\ \A e \in seen[c] : parents[e] \cap held \subseteq seen[c]
      BY <2>2
    <3> QED BY <1>1, <3>1, ReachIsLeast
  <2> QED BY <1>4, <2>1, <2>2, <2>3
<1>5. CASE /\ pc[c] = "on" /\ cursor'[c] = rawTips /\ first'[c] = first[c]
           /\ reported'[c] = reported[c] \cup IdsAdded(cursor[c], rawTips)
           /\ \A d \in Receivers : pc[d] # "store"
           /\ UNCHANGED <<status, parents>>
  <2>1. held' = held
    BY <1>5 DEF held
  <2>2. \A e \in held : parents[e] \subseteq held
    BY <1>0, <1>5 DEF WholeInv
  <2>3. /\ cursor[c] \subseteq held /\ rawTips \subseteq held
        /\ Reach(parents, held, cursor[c])
             \subseteq Reach(parents, held, first[c]) \cup reported[c]
    BY <1>0, <1>5 DEF EventInv, Ancestry, rawTips, Tips
  <2>4. /\ Reach(parents, ID \ cursor[c], rawTips) \subseteq held
        /\ Reach(parents, held, rawTips)
             \subseteq Reach(parents, ID \ cursor[c], rawTips)
                         \cup Reach(parents, held, cursor[c])
    BY <1>1, <2>2, <2>3, BracketCovers, Zenon
  <2>5. ~ Backward(cursor[c], rawTips)
    BY <1>0, <2>3, NeverBackward DEF Backward
  <2>6. \/ cursor[c] = rawTips
        \/ IdsAdded(cursor[c], rawTips) = Reach(parents, ID \ cursor[c], rawTips)
    BY <2>4, <2>5 DEF IdsAdded
  <2>7. Reach(parents, held, rawTips) \subseteq held
    BY ReachInside
  <2>8. Reach(parents, held, rawTips)
          \subseteq Reach(parents, held, first[c]) \cup reported'[c]
    BY <1>5, <2>3, <2>4, <2>6, Zenon
  <2> QED BY <1>5, <2>1, <2>2, <2>3, <2>7, <2>8
<1> QED
  BY <1>3, <1>4, <1>5 DEF EventMoves

(* How one step moves receiver d. *)
StoreMoves(d) ==
    \/ pc'[d] = pc[d] /\ batch'[d] = batch[d]
    \/ pc[d] # "store" /\ pc'[d] \notin {"wantStore", "store"}
    \/ pc[d] = "store" /\ batch[d] = {} /\ pc'[d] \notin {"wantStore", "store"}
    \/ pc[d] = "wantStore" /\ pc'[d] = "store" /\ batch'[d] = batch[d]
    \/ /\ pc[d] # "store" /\ pc'[d] = "wantStore"
       /\ \A e \in batch'[d] : world.parents[e] \subseteq held \cup batch'[d]
    \/ /\ pc[d] = "store" /\ pc'[d] = "store"
       /\ \E e \in held' : batch'[d] = batch[d] \ {e}

(* How one step moves the running verify pass. *)
PassMoves ==
    \/ fireTips' = fireTips
       /\ \A p \in Process : pc'[p] = "verify" => pc[p] = "verify"
    \/ fireTips' = rawTips /\ UNCHANGED <<status, parents>>
    \/ \A p \in Process : pc'[p] # "verify"

(* What is held changes under the tree lock only. *)
LEMMA HeldSteps ==
    ASSUME LockInv, [Next]_vars
    PROVE  \/ held' = held /\ parents' = parents
           \/ \E w \in Writers : PutWrite(w)
           \/ \E d \in Receivers, e \in ID : StoreEntry(d, e)
<1>0. TypeOK
  BY DEF LockInv
<1>1. ASSUME NEW w \in Writers, PutMark(w) PROVE held' = held /\ parents' = parents
  <2>1. status[w] = "Unverified" /\ w \in ID
    BY <1>1 DEF PutMark, LockInv, ID
  <2> QED BY <1>0, <1>1, <2>1 DEF PutMark, TypeOK, held, dag
<1>2. ASSUME NEW p \in Process, NEW e \in ID, VerifyEntry(p, e)
      PROVE  held' = held /\ parents' = parents
  <2>1. Decision(e) # "Absent"
    BY DEF Decision
  <2>2. status' = [status EXCEPT ![e] = Decision(e)] /\ parents' = parents
    BY <1>2 DEF VerifyEntry, dag
  <2>3. status[e] = "Unverified"
    BY <1>2 DEF VerifyEntry, LockInv, With
  <2> QED BY <1>0, <2>1, <2>2, <2>3 DEF TypeOK, held
<1>3. CASE UNCHANGED status
  <2>1. ASSUME NEW w \in Writers, PutWrite(w) PROVE \E v \in Writers : PutWrite(v)
    BY <2>1
  <2> QED BY <1>3, <2>1, DagSteps DEF held
<1> QED
  BY <1>1, <1>2, <1>3, StatusSteps

(* WholeInv is kept: an entry is stored when its parents are held or will   *)
(* be before the lock is given back.                                        *)
LEMMA WholeInvMoves ==
    ASSUME GapInv, SnapshotInv', [Next]_vars, PassMoves,
           \A d \in Receivers : StoreMoves(d)
    PROVE  WholeInv'
<1>0. /\ TypeOK /\ LockInv /\ WholeInv /\ HeightInv /\ HeightInv' /\ TypeOK'
      /\ HeldInv
  BY DEF GapInv, SnapshotInv, LockInv
<1>1. held \subseteq held' /\ held' \subseteq ID
  BY <1>0, HeldGrows DEF held
<1>2. /\ \A e \in held : parents'[e] = parents[e]
      /\ \A e \in Remote : parents'[e] = parents[e] /\ parents[e] = world.parents[e]
  BY <1>0, AncestryGrows, DagSteps DEF HeightInv
<1>3. ASSUME NEW d \in Receivers, pc'[d] \in {"wantStore", "store"},
             NEW e \in batch'[d], NEW q \in parents'[e]
      PROVE  q \in held' \cup batch'[d]
  <2>1. e \in Remote
    BY <1>0, <1>3 DEF TypeOK
  <2>2. CASE pc[d] # "store" /\ pc'[d] = "wantStore"
             /\ \A o \in batch'[d] : world.parents[o] \subseteq held \cup batch'[d]
    BY <1>1, <1>2, <1>3, <2>1, <2>2
  <2>3. CASE pc[d] \in {"wantStore", "store"} /\ batch'[d] = batch[d]
    BY <1>0, <1>1, <1>2, <1>3, <2>1, <2>3 DEF WholeInv
  <2>4. CASE pc[d] = "store" /\ \E o \in held' : batch'[d] = batch[d] \ {o}
    <3>1. PICK o \in held' : batch'[d] = batch[d] \ {o}
      BY <2>4
    <3>2. e \in batch[d] /\ q \in parents[e]
      BY <1>2, <1>3, <2>1, <3>1
    <3>3. q \in held \cup batch[d]
      BY <1>0, <2>4, <3>2 DEF WholeInv
    <3> QED BY <1>1, <3>1, <3>3
  <2> QED
    BY <1>3, <2>2, <2>3, <2>4 DEF StoreMoves
<1>4. ASSUME NEW q, NEW d \in Receivers, pc[d] = "store", q \in batch[d]
      PROVE  q \in held' \/ (pc'[d] = "store" /\ q \in batch'[d])
  BY <1>4 DEF StoreMoves
<1>5. ASSUME NEW e \in held', NEW q \in parents'[e]
      PROVE  q \in held' \/ \E d \in Receivers : pc'[d] = "store" /\ q \in batch'[d]
  <2>1. CASE e \in held
    BY <1>0, <1>1, <1>2, <1>4, <1>5, <2>1 DEF WholeInv
  <2>2. ASSUME NEW w \in Writers, PutWrite(w), e \notin held
        PROVE  q \in held'
    <3>1. /\ status' = [status EXCEPT ![w] = "Unverified"]
          /\ parents' = [parents EXCEPT ![w] = base[w]] /\ w \in ID
      BY <2>2 DEF PutWrite, ID
    <3>2. e = w
      BY <1>0, <2>2, <3>1 DEF held, TypeOK
    <3>3. q \in base[w]
      BY <1>0, <1>5, <3>1, <3>2 DEF TypeOK
    <3> QED BY <1>0, <1>1, <3>3 DEF HeldInv
  <2>3. ASSUME NEW d \in Receivers, NEW o \in ID, StoreEntry(d, o), e \notin held
        PROVE  q \in held \/ (pc[d] = "store" /\ q \in batch[d])
    <3>1. e = o /\ e \in batch[d] /\ pc[d] = "store"
      BY <1>0, <2>3 DEF StoreEntry, held, TypeOK
    <3>2. q \in parents[e]
      BY <1>0, <1>2, <1>5, <3>1 DEF TypeOK
    <3> QED BY <1>0, <3>1, <3>2 DEF WholeInv
  <2> QED
    BY <1>0, <1>1, <1>4, <2>1, <2>2, <2>3, HeldSteps
<1>6. ASSUME NEW p \in Process, pc'[p] = "verify" PROVE fireTips' = rawTips'
  <2>1. CASE fireTips' = rawTips /\ UNCHANGED <<status, parents>>
    BY <2>1 DEF rawTips, held
  <2>2. CASE fireTips' = fireTips /\ pc[p] = "verify"
    <3>1. lock = p /\ fireTips = rawTips
      BY <1>0, <2>2 DEF LockInv, WholeInv
    <3>2. ASSUME NEW w \in Writers, PutWrite(w) PROVE FALSE
      <4>1. w \in Process /\ pc[w] = "put"
        BY <3>2 DEF PutWrite, Process, Viewers
      <4>2. lock = w
        BY <1>0, <4>1 DEF LockInv
      <4> QED BY <2>2, <3>1, <4>1, <4>2
    <3>3. ASSUME NEW d \in Receivers, NEW e \in ID, StoreEntry(d, e) PROVE FALSE
      <4>1. d \in Process /\ pc[d] = "store"
        BY <3>3 DEF StoreEntry, Process
      <4>2. lock = d
        BY <1>0, <4>1 DEF LockInv
      <4> QED BY <2>2, <3>1, <4>1, <4>2
    <3>4. held' = held /\ parents' = parents
      BY <1>0, <3>2, <3>3, HeldSteps
    <3> QED BY <2>2, <3>1, <3>4 DEF rawTips
  <2> QED BY <1>6, <2>1, <2>2 DEF PassMoves
<1> QED
  BY <1>3, <1>5, <1>6 DEF WholeInv

AllMoves == /\ PassMoves
            /\ \A d \in Receivers : StoreMoves(d)
            /\ \A c \in Callbacks : EventMoves(c)

(* A task that takes no part in storing, verifying or watching moves none   *)
(* of them.                                                                 *)
LEMMA QuietMove ==
    ASSUME NEW p \in Process, \A q \in Process \ {p} : pc'[q] = pc[q],
           pc'[p] = pc[p] \/ pc'[p] \notin {"on", "verify", "store", "wantStore"},
           pc[p] # "store",
           batch' = batch, fireTips' = fireTips, cursor' = cursor,
           first' = first, reported' = reported
    PROVE  AllMoves
<1>1. Receivers \subseteq Process /\ Callbacks \subseteq Process
  BY DEF Process, Viewers
<1>3. PassMoves
  BY DEF PassMoves
<1>4. \A d \in Receivers : StoreMoves(d)
  BY <1>1 DEF StoreMoves
<1>5. \A c \in Callbacks : EventMoves(c)
  BY <1>1 DEF EventMoves
<1> QED
  BY <1>3, <1>4, <1>5 DEF AllMoves

(* The steps of a snapshot. *)
LEMMA ReadAllMoves ==
    ASSUME WholeBatches, TypeOK, NEW p \in Viewers, Read(p)
    PROVE  AllMoves
<1> USE DEF Goto, intake, pass, watch
<1>0. p \in Process /\ pc \in [Process -> Labels]
  BY DEF Process, TypeOK
<1>1. CASE ProbeTips(p)
  BY <1>0, <1>1, QuietMove DEF ProbeTips
<1>2. CASE ProbeStatus(p)
  <2>1. PICK l \in {"wantVerify", "view"} : pc' = [pc EXCEPT ![p] = l]
    BY <1>2 DEF ProbeStatus
  <2>2. /\ pc[p] = "probe" /\ batch' = batch /\ fireTips' = fireTips
        /\ cursor' = cursor /\ first' = first /\ reported' = reported
    BY <1>2 DEF ProbeStatus
  <2> QED BY <1>0, <2>1, <2>2, QuietMove
<1>3. CASE ProbeError(p)
  BY <1>3 DEF ProbeError, WholeBatches
<1>4. CASE StartScan(p)
  BY <1>0, <1>4, QuietMove DEF StartScan
<1>5. CASE ReadError(p)
  BY <1>5 DEF ReadError, WholeBatches
<1>6. ASSUME NEW e \in ID, ScanEntry(p, e) PROVE AllMoves
  BY <1>0, <1>6, QuietMove DEF ScanEntry
<1> QED
  BY <1>1, <1>2, <1>3, <1>4, <1>5, <1>6 DEF Read

(* An event fires at the raw tips, under the lock. *)
LEMMA FireMoves ==
    ASSUME TypeOK, NEW p \in Process, NEW l, pc' = [pc EXCEPT ![p] = l],
           p \notin Callbacks \/ pc[p] # "on", l # "on", Fire(rawTips),
           \A d \in Receivers : pc[d] # "store",
           status' = status, parents' = parents
    PROVE  \A c \in Callbacks : EventMoves(c)
<1> SUFFICES ASSUME NEW c \in Callbacks PROVE EventMoves(c)
  OBVIOUS
<1>1. c \in Process
  BY DEF Process, Viewers
<1>2. CASE pc[c] = "on"
  <2>1. /\ cursor'[c] = rawTips /\ first'[c] = first[c]
        /\ reported'[c] = reported[c] \cup IdsAdded(cursor[c], rawTips)
    BY <1>2 DEF Fire
  <2> QED BY <1>2, <2>1 DEF EventMoves
<1>3. CASE pc[c] # "on"
  <2>1. pc'[c] # "on"
    BY <1>1, <1>3 DEF TypeOK
  <2> QED BY <2>1 DEF EventMoves
<1> QED
  BY <1>2, <1>3

(* The task that holds the lock is the only one that may be storing. *)
LEMMA OneHolder ==
    ASSUME LockInv, NEW p \in Process, pc[p] \in {"put", "mark", "fire", "verify"}
    PROVE  /\ \A d \in Receivers : pc[d] # "store"
           /\ \A q \in Process \ {p} : pc[q] # "verify"
<1>1. lock = p
  BY DEF LockInv
<1> QED
  BY <1>1 DEF LockInv, Process

(* The steps of a verify pass. *)
LEMMA VerifyAllMoves ==
    ASSUME WholeBatches, LockInv, WholeInv, NEW p \in Process, Verify(p)
    PROVE  AllMoves
<1> USE DEF Goto
<1>0. TypeOK /\ Receivers \subseteq Process /\ Callbacks \subseteq Process
  BY DEF LockInv, Process, Viewers
<1>1. CASE VerifyLock(p)
  <2>1. /\ pc' = [pc EXCEPT ![p] = "verify"] /\ pc[p] = "wantVerify"
        /\ batch' = batch /\ fireTips' = rawTips /\ cursor' = cursor
        /\ first' = first /\ reported' = reported
        /\ status' = status /\ parents' = parents
    BY <1>1 DEF VerifyLock, intake, watch, dag
  <2>2. \A q \in Process : pc'[q] = pc[q] \/ (q = p /\ pc'[q] = "verify")
    BY <1>0, <2>1 DEF TypeOK
  <2>3. PassMoves
    BY <2>1 DEF PassMoves
  <2>4. \A d \in Receivers : StoreMoves(d)
    BY <1>0, <2>1, <2>2 DEF StoreMoves
  <2>5. \A c \in Callbacks : EventMoves(c)
    BY <1>0, <2>1, <2>2 DEF EventMoves
  <2> QED BY <2>3, <2>4, <2>5 DEF AllMoves
<1>2. CASE VerifyDone(p)
  <2>1. PICK l \in {"done", "view"} : pc' = [pc EXCEPT ![p] = l]
    BY <1>2, Zenon DEF VerifyDone
  <2>2. /\ pc[p] = "verify" /\ batch' = batch
        /\ status' = status /\ parents' = parents
    BY <1>2 DEF VerifyDone, intake, dag
  <2>3. \A q \in Process : pc'[q] = pc[q] \/ (q = p /\ pc'[q] = l)
    BY <1>0, <2>1 DEF TypeOK
  <2>4. PassMoves
    <3>1. pc'[p] = l
      BY <1>0, <2>1 DEF TypeOK
    <3> QED BY <2>2, <2>3, <3>1, OneHolder DEF PassMoves
  <2>5. \A d \in Receivers : StoreMoves(d)
    BY <1>0, <2>2, <2>3 DEF StoreMoves
  <2>6. \A c \in Callbacks : EventMoves(c)
    <3>1. CASE promoted # {}
      <4>1. Fire(rawTips)
        BY <1>2, <2>2, <3>1 DEF VerifyDone, WholeInv
      <4>2. \A d \in Receivers : pc[d] # "store"
        BY <2>2, OneHolder
      <4> QED BY <1>0, <2>1, <2>2, <4>1, <4>2, FireMoves, Zenon
    <3>2. CASE promoted = {}
      <4>1. cursor' = cursor /\ first' = first /\ reported' = reported
        BY <1>2, <3>2 DEF VerifyDone, watch
      <4> QED BY <1>0, <2>3, <4>1 DEF EventMoves
    <3> QED BY <3>1, <3>2
  <2> QED BY <2>4, <2>5, <2>6 DEF AllMoves
<1>3. CASE VerifyFail(p)
  BY <1>3 DEF VerifyFail, WholeBatches
<1>4. ASSUME NEW e \in ID, VerifyEntry(p, e) PROVE AllMoves
  BY <1>4, QuietMove DEF VerifyEntry, intake, watch
<1> QED
  BY <1>1, <1>2, <1>3, <1>4 DEF Verify

(* No step moves them any other way. *)
LEMMA StepAllMoves ==
    ASSUME WholeBatches, LockInv, WholeInv, [Next]_vars
    PROVE  AllMoves
<1> USE DEF Goto
<1>0. /\ TypeOK /\ pc \in [Process -> Labels] /\ Writers \subseteq Process /\ Callbacks \subseteq Process
      /\ Receivers \subseteq Process /\ Writers \subseteq Viewers
      /\ Callbacks \subseteq Viewers /\ Writers \cap Callbacks = {}
      /\ Writers \cap Receivers = {} /\ Callbacks \cap Receivers = {}
  BY TasksAndEntriesDistinct DEF LockInv, TypeOK, Process, Viewers
<1>1. ASSUME NEW w \in Writers, Write(w) PROVE AllMoves
  <2>1. CASE OpenTransaction(w)
    <3>1. PICK l \in {"failed", "txn"} : pc' = [pc EXCEPT ![w] = l]
      BY <2>1, Zenon DEF OpenTransaction
    <3> QED BY <1>0, <2>1, <3>1, QuietMove
            DEF OpenTransaction, ScanDone, intake, pass, watch
  <2>2. CASE SealTransaction(w)
    <3>1. PICK l \in {"wantPut", "failed"} : pc' = [pc EXCEPT ![w] = l]
      BY <2>2, Zenon DEF SealTransaction
    <3> QED BY <1>0, <2>2, <3>1, QuietMove
            DEF SealTransaction, ScanDone, intake, pass, watch
  <2>3. CASE PutLock(w)
    BY <1>0, <2>3, QuietMove DEF PutLock, intake, pass, watch
  <2>4. CASE PutWrite(w)
    BY <1>0, <2>4, QuietMove DEF PutWrite, intake, pass, watch
  <2>5. CASE PutMark(w)
    BY <1>0, <2>5, QuietMove DEF PutMark, intake, pass, watch
  <2>6. CASE PutFire(w)
    <3>1. /\ pc[w] = "fire" /\ pc' = [pc EXCEPT ![w] = "done"]
          /\ Fire(rawTips) /\ batch' = batch /\ fireTips' = fireTips
          /\ status' = status /\ parents' = parents
      BY <2>6 DEF PutFire, intake, pass, dag
    <3>2. \A q \in Process : pc'[q] = pc[q] \/ (q = w /\ pc'[q] = "done")
      BY <1>0, <3>1 DEF TypeOK
    <3>3. \A d \in Receivers : pc[d] # "store"
      BY <1>0, <3>1, OneHolder
    <3>4. \A c \in Callbacks : EventMoves(c)
      BY <1>0, <3>1, <3>3, FireMoves, Zenon
    <3>5. PassMoves
      BY <3>1, <3>2 DEF PassMoves
    <3>6. \A d \in Receivers : StoreMoves(d)
      BY <1>0, <3>1, <3>2 DEF StoreMoves
    <3> QED BY <3>4, <3>5, <3>6 DEF AllMoves
  <2>7. CASE PutFail(w)
    BY <2>7 DEF PutFail, WholeBatches
  <2> QED
    BY <1>0, <1>1, <2>1, <2>2, <2>3, <2>4, <2>5, <2>6, <2>7, ReadAllMoves,
       VerifyAllMoves DEF Write
<1>2. ASSUME NEW c \in Callbacks, Watch(c) PROVE AllMoves
  <2>1. CASE ReadCursor(c)
    BY <1>0, <2>1, QuietMove DEF ReadCursor, ScanDone, intake, pass, watch
  <2>2. CASE RegisterCallback(c)
    <3>1. /\ pc[c] = "register" /\ pc' = [pc EXCEPT ![c] = "on"]
          /\ cursor' = [cursor EXCEPT ![c] = view[c]]
          /\ first' = [first EXCEPT ![c] = view[c]] /\ reported' = reported
          /\ batch' = batch /\ fireTips' = fireTips
          /\ status' = status /\ parents' = parents
      BY <2>2 DEF RegisterCallback, intake, pass, dag
    <3>2. \A q \in Process : pc'[q] = pc[q] \/ (q = c /\ pc'[q] = "on")
      BY <1>0, <3>1 DEF TypeOK
    <3>3. PassMoves
      BY <3>1, <3>2 DEF PassMoves
    <3>4. \A d \in Receivers : StoreMoves(d)
      BY <1>0, <3>1, <3>2 DEF StoreMoves
    <3>5. ASSUME NEW b \in Callbacks PROVE EventMoves(b)
      <4>1. CASE b = c
        <5>1. cursor'[c] = view[c] /\ first'[c] = view[c]
          BY <1>0, <3>1 DEF TypeOK
        <5> QED BY <3>1, <4>1, <5>1 DEF EventMoves
      <4>2. CASE b # c
        <5>1. /\ cursor'[b] = cursor[b] /\ first'[b] = first[b]
              /\ reported'[b] = reported[b] /\ pc'[b] = pc[b]
          BY <1>0, <3>1, <4>2 DEF TypeOK
        <5> QED BY <5>1 DEF EventMoves
      <4> QED BY <4>1, <4>2
    <3> QED BY <3>3, <3>4, <3>5 DEF AllMoves
  <2> QED
    BY <1>0, <1>2, <2>1, <2>2, ReadAllMoves, VerifyAllMoves DEF Watch
<1>3. ASSUME NEW d \in Receivers, \A q \in Process \ {d} : pc'[q] = pc[q],
             pc'[d] \notin {"on", "verify"}, StoreMoves(d),
             \A b \in Receivers \ {d} : batch'[b] = batch[b],
             fireTips' = fireTips, cursor' = cursor, first' = first,
             reported' = reported
      PROVE  AllMoves
  <2>2. PassMoves
    BY <1>3 DEF PassMoves
  <2>3. \A b \in Receivers : StoreMoves(b)
    BY <1>0, <1>3 DEF StoreMoves
  <2>4. \A c \in Callbacks : EventMoves(c)
    BY <1>0, <1>3 DEF EventMoves
  <2> QED BY <2>2, <2>3, <2>4 DEF AllMoves
<1>4. ASSUME NEW d \in Receivers, NEW B \in SUBSET Remote, Receive(d, B)
      PROVE  AllMoves
  <2>1. /\ pc[d] = "idle" /\ pc' = [pc EXCEPT ![d] = "wantStore"]
        /\ batch' = [batch EXCEPT ![d] = B]
        /\ \A e \in B : world.parents[e] \subseteq held \cup B
        /\ fireTips' = fireTips /\ cursor' = cursor /\ first' = first
        /\ reported' = reported
    BY <1>4 DEF Receive, WholeBatches, pass, watch
  <2>2. pc'[d] = "wantStore" /\ batch'[d] = B
    BY <1>0, <2>1 DEF TypeOK
  <2>3. StoreMoves(d)
    BY <2>1, <2>2 DEF StoreMoves
  <2>4. \A b \in Receivers \ {d} : batch'[b] = batch[b]
    BY <1>0, <2>1 DEF TypeOK
  <2> QED BY <1>0, <1>3, <2>1, <2>3, <2>4
<1>5. ASSUME NEW d \in Receivers, Ingest(d) PROVE AllMoves
  <2>1. CASE StoreLock(d)
    <3>1. /\ pc[d] = "wantStore" /\ pc' = [pc EXCEPT ![d] = "store"]
          /\ batch' = batch /\ fireTips' = fireTips /\ cursor' = cursor
          /\ first' = first /\ reported' = reported
      BY <2>1 DEF StoreLock, intake, pass, watch
    <3>2. StoreMoves(d)
      BY <1>0, <3>1 DEF StoreMoves, TypeOK
    <3> QED BY <1>0, <1>3, <3>1, <3>2
  <2>2. CASE StoreDone(d)
    <3>1. PICK l \in {"wantVerify", "done"} : pc' = [pc EXCEPT ![d] = l]
      BY <2>2, Zenon DEF StoreDone
    <3>2. /\ pc[d] = "store" /\ batch[d] = {}
          /\ batch' = batch /\ fireTips' = fireTips /\ cursor' = cursor
          /\ first' = first /\ reported' = reported
      BY <2>2 DEF StoreDone, intake, pass, watch
    <3>3. StoreMoves(d)
      BY <1>0, <3>1, <3>2 DEF StoreMoves, TypeOK
    <3> QED BY <1>0, <1>3, <3>1, <3>2, <3>3
  <2>3. ASSUME NEW e \in ID, StoreEntry(d, e) PROVE AllMoves
    <3>1. /\ pc[d] = "store" /\ pc' = pc
          /\ batch' = [batch EXCEPT ![d] = @ \ {e}]
          /\ status' = [status EXCEPT ![e] =
                            IF @ = "Absent" THEN "Unverified" ELSE @]
          /\ fireTips' = fireTips /\ cursor' = cursor /\ first' = first
          /\ reported' = reported
      BY <2>3 DEF StoreEntry, WholeBatches, pass, watch
    <3>2. e \in held'
      BY <1>0, <3>1 DEF held, TypeOK
    <3>3. batch'[d] = batch[d] \ {e}
      BY <1>0, <3>1 DEF TypeOK
    <3>4. StoreMoves(d)
      BY <3>1, <3>2, <3>3 DEF StoreMoves
    <3>5. \A b \in Receivers \ {d} : batch'[b] = batch[b]
      BY <1>0, <3>1 DEF TypeOK
    <3> QED BY <1>3, <3>1, <3>4, <3>5
  <2> QED
    BY <1>0, <1>5, <2>1, <2>2, <2>3, VerifyAllMoves DEF Ingest
<1>6. CASE SyncDelegated \/ UNCHANGED vars
  <2>1. /\ pc' = pc /\ batch' = batch /\ fireTips' = fireTips /\ cursor' = cursor
        /\ first' = first /\ reported' = reported
    BY <1>6 DEF SyncDelegated, vars, intake, pass, watch
  <2> QED BY <2>1 DEF AllMoves, PassMoves, StoreMoves, EventMoves
<1>7. CASE Crash
  <2>1. crashes < MaxCrashes /\ crashes \in 0..MaxCrashes /\ MaxCrashes = 0
    BY <1>0, <1>7 DEF Crash, TypeOK, WholeBatches
  <2> QED BY <2>1
<1> QED
  BY <1>1, <1>2, <1>4, <1>5, <1>6, <1>7 DEF Next

(* A default snapshot sees an entry only after its parents. *)
LEMMA SeenInvMoves ==
    ASSUME WholeBatches, SnapshotInv, [Next]_vars, NEW c \in Callbacks, SeenInv(c)
    PROVE  SeenInv(c)'
<1>0. /\ LockInv /\ c \in Viewers \ AllowUnverified /\ seen[c] \subseteq held
  BY DEF SnapshotInv, HeldInv, Viewers, WholeBatches
<1>1. ReadsMove(c) /\ \A e \in seen[c] : parents'[e] = parents[e]
  BY <1>0, StepReadsMove, AncestryGrows
<1>2. CASE SameReads(c) /\ pc'[c] = pc[c]
  BY <1>1, <1>2 DEF SeenInv, SameReads
<1>3. CASE pc'[c] # "register" /\ seen'[c] \in {seen[c], {}}
  BY <1>1, <1>3 DEF SeenInv
<1>4. ASSUME pc'[c] = "scan", NEW e \in scan[c],
             seen'[c] = IF Visible(c, e) THEN seen[c] \cup {e} ELSE seen[c]
      PROVE  SeenInv(c)'
  <2>1. Visible(c, e) => parents[e] \subseteq seen[c]
    BY <1>0 DEF Visible
  <2>2. parents'[e] = parents[e]
    BY <1>0, AncestryGrows DEF SnapshotInv, HeldInv
  <2> QED BY <1>1, <1>4, <2>1, <2>2 DEF SeenInv
<1>5. CASE view'[c] = Frontier(c) /\ seen'[c] = seen[c]
  <2>1. Frontier(c) \subseteq seen[c]
    BY DEF Frontier
  <2> QED BY <1>1, <1>5, <2>1 DEF SeenInv
<1> QED
  BY <1>1, <1>2, <1>3, <1>4, <1>5, Zenon DEF ReadsMove, Looking, WholeBatches

(* Write events leave no gap (Database::ids_added "can only over-report -   *)
(* never under-report"), when batches are checked and stored whole, with no *)
(* failing write and no crash inside one.                                   *)
THEOREM EventsLeaveNoGap ==
    ASSUME WholeBatches
    PROVE  Spec => []NoUnderReport
<1>1. Init => GapInv
  <2> SUFFICES ASSUME Init PROVE GapInv
    OBVIOUS
  <2>1. SnapshotInv
    BY InitSnapshotInv
  <2>2. /\ \A p \in Process : pc[p] = "idle"
        /\ Receivers \subseteq Process /\ Callbacks \subseteq Process
        /\ held \subseteq {Root} /\ (Root \in ID => parents[Root] = {})
    BY TasksAndEntriesDistinct DEF Init, Process, Viewers, held
  <2>3. WholeInv
    BY <2>2 DEF WholeInv, held
  <2>4. \A c \in Callbacks : seen[c] = {}
    BY DEF Init, Viewers
  <2>5. \A c \in Callbacks : SeenInv(c) /\ EventInv(c)
    BY <2>2, <2>4 DEF SeenInv, EventInv
  <2> QED BY <2>1, <2>3, <2>5 DEF GapInv
<1>2. GapInv /\ [Next]_vars => GapInv'
  <2> SUFFICES ASSUME GapInv, [Next]_vars PROVE GapInv'
    OBVIOUS
  <2>1. SnapshotInv /\ LockInv /\ WholeInv /\ \A c \in Callbacks : SeenInv(c)
    BY DEF GapInv, SnapshotInv
  <2>2. SnapshotInv'
    BY <2>1, NextKeepsSnapshotInv
  <2>3. AllMoves
    BY <2>1, StepAllMoves
  <2>4. WholeInv'
    BY <2>2, <2>3, WholeInvMoves DEF AllMoves
  <2>5. \A c \in Callbacks : EventInv(c)'
    BY <2>3, EventInvMoves DEF AllMoves
  <2>6. \A c \in Callbacks : SeenInv(c)'
    BY <2>1, SeenInvMoves
  <2> QED BY <2>2, <2>4, <2>5, <2>6 DEF GapInv
<1>3. GapInv => NoUnderReport
  BY DEF GapInv, EventInv, NoUnderReport
<1> QED
  BY <1>1, <1>2, <1>3, PTL DEF Spec
=============================================================================
