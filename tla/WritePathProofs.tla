-------------------------- MODULE WritePathProofs ---------------------------
(***************************************************************************)
(* What the write path keeps for every number of entries, transactions,    *)
(* receivers and callbacks, and every graph of remote entries.             *)
(***************************************************************************)
EXTENDS WritePath, TLAPS

(***************************************************************************)
(* The operators stay inside the entries they are given                    *)
(***************************************************************************)

(* A walk collects only entries that are held (Database::verify,            *)
(* ids_added).                                                              *)
LEMMA ReachInside ==
    ASSUME NEW par, NEW H, NEW F
    PROVE  Reach(par, H, F) \subseteq H
BY DEF Reach

(* The raw tips, the Unverified region and the Verified prefix are entries  *)
(* of the tree.                                                             *)
LEMMA WalksInside ==
    /\ held \subseteq ID
    /\ rawTips \subseteq ID
    /\ UnverifiedRegion \subseteq With("Unverified")
    /\ verifiedPrefix \subseteq ID
    /\ \A st : With(st) \subseteq ID
<1>1. UnverifiedRegion \subseteq With("Unverified")
  BY ReachInside DEF UnverifiedRegion
<1>2. verifiedPrefix \subseteq ID
  BY DEF verifiedPrefix, With
<1>. QED
  BY <1>1, <1>2 DEF held, rawTips, Tips, With

(* What an event lets a callback enumerate are entries (Database::ids_added). *)
LEMMA IdsAddedInside ==
    ASSUME NEW from, NEW to
    PROVE  IdsAdded(from, to) \subseteq ID
<1>1. Reach(parents, ID \ from, to) \subseteq ID
  BY ReachInside
<1>. QED
  BY <1>1 DEF IdsAdded

(* The settings a commit pins are entries (Transaction::commit). *)
LEMMA SettingsTipsInside ==
    ASSUME TypeOK, NEW tips
    PROVE  SettingsTips(tips) \subseteq ID
<1>1. settingsEntries \subseteq ID
  BY WorldsWellFormed DEF TypeOK, settingsEntries, ID
<1>. QED
  BY <1>1 DEF SettingsTips

(***************************************************************************)
(* The tree lock                                                           *)
(***************************************************************************)

(* The first state: the lock is free and only the root is held. *)
LEMMA InitLockInv == Init => LockInv
<1>. SUFFICES ASSUME Init PROVE LockInv
  OBVIOUS
<1>1. TypeOK
  <2>1. /\ world \in Worlds
        /\ world.parents \in [Remote -> SUBSET ({Root} \cup Remote)]
        /\ world.pin \in [Remote -> SUBSET ({Root} \cup Remote)]
        /\ world.height \in [Remote -> Nat]
    BY WorldsWellFormed DEF Init
  <2>2. /\ parents \in [ID -> SUBSET ID]
        /\ pin \in [ID -> SUBSET ID]
        /\ height \in [ID -> Nat]
    BY <2>1 DEF Init, ID
  <2>3. synced \in BOOLEAN /\ stored \in [Receivers -> BOOLEAN]
    BY Zenon DEF Init
  <2>4. lock \in Process \cup {NoOne} /\ pc \in [Process -> Labels]
    BY DEF Init, Labels
  <2>5. status \in [ID -> {"Absent", "Unverified", "Verified", "Failed"}]
    BY DEF Init
  <2>6. /\ scan \in [Viewers -> SUBSET ID] /\ seen \in [Viewers -> SUBSET ID]
        /\ view \in [Viewers -> SUBSET ID] /\ floor \in [Viewers -> SUBSET ID]
        /\ base \in [Writers -> SUBSET ID] /\ prev \in [Writers -> SUBSET ID]
        /\ batch \in [Receivers -> SUBSET Remote]
    BY DEF Init
  <2>7. /\ region \subseteq ID /\ fireTips \subseteq ID /\ promoted \subseteq ID
        /\ cursor \in [Callbacks -> SUBSET ID]
        /\ first \in [Callbacks -> SUBSET ID]
        /\ reported \in [Callbacks -> SUBSET ID]
        /\ crashes \in 0..MaxCrashes
    BY MaxCrashesIsNat DEF Init
  <2>. QED
    BY <2>1, <2>2, <2>3, <2>4, <2>5, <2>6, <2>7 DEF TypeOK
<1>. QED
  BY <1>1, TasksAndEntriesDistinct DEF Init, LockInv, Process, Viewers, With, ID

(* A task that neither holds the lock nor takes it, and settles nothing,    *)
(* keeps LockInv.                                                           *)
LEMMA FreeMove ==
    ASSUME LockInv, TypeOK', NEW p \in Process, NEW label,
           pc' = [pc EXCEPT ![p] = label],
           pc[p] \notin {"put", "mark", "fire", "verify", "store", "done", "failed"},
           label \notin {"put", "mark", "fire", "verify", "store"},
           UNCHANGED <<status, lock, region>>
    PROVE  LockInv'
<1>1. pc \in [Process -> Labels]
  BY DEF LockInv, TypeOK
<1>2. \A q \in Process : pc'[q] \in {"put", "mark", "fire", "verify", "store"}
                            => lock' = q
  BY <1>1 DEF LockInv
<1>3. \A w \in Writers :
         /\ pc'[w] \notin {"mark", "fire", "done", "failed"}
               => status'[w] = "Absent"
         /\ pc'[w] = "mark" => status'[w] = "Unverified"
  BY <1>1 DEF LockInv, Process, Viewers
<1>4. region' \subseteq With("Unverified")'
  BY DEF LockInv, With
<1>5. region' # {} => \E q \in Process : pc'[q] = "verify"
  BY <1>1 DEF LockInv
<1>. QED
  BY <1>2, <1>3, <1>4, <1>5 DEF LockInv

(* A task that takes the free lock keeps LockInv; the region it may bring   *)
(* with it is that of Database::verify.                                     *)
LEMMA TakeLock ==
    ASSUME LockInv, TypeOK', NEW p \in Process,
           NEW label \in {"put", "verify", "store"},
           pc' = [pc EXCEPT ![p] = label],
           pc[p] \notin {"mark", "fire", "done", "failed"},
           lock = NoOne, lock' = p, UNCHANGED status,
           \/ UNCHANGED region
           \/ label = "verify" /\ region' \subseteq With("Unverified")
    PROVE  LockInv'
<1>1. pc \in [Process -> Labels]
  BY DEF LockInv, TypeOK
<1>2. \A q \in Process : pc[q] \notin {"put", "mark", "fire", "verify", "store"}
  BY TasksAndEntriesDistinct DEF LockInv
<1>3. region = {}
  BY <1>2 DEF LockInv
<1>4. \A q \in Process : pc'[q] \in {"put", "mark", "fire", "verify", "store"}
                            => lock' = q
  BY <1>1, <1>2
<1>5. \A w \in Writers :
         /\ pc'[w] \notin {"mark", "fire", "done", "failed"}
               => status'[w] = "Absent"
         /\ pc'[w] = "mark" => status'[w] = "Unverified"
  BY <1>1 DEF LockInv, Process, Viewers
<1>6. region' \subseteq With("Unverified")'
  BY <1>3 DEF With
<1>7. region' # {} => \E q \in Process : pc'[q] = "verify"
  BY <1>1, <1>3
<1>. QED
  BY <1>4, <1>5, <1>6, <1>7 DEF LockInv

(* The holder that gives the lock back, and forgets the region it was       *)
(* working on, keeps LockInv.                                               *)
LEMMA DropLock ==
    ASSUME LockInv, TypeOK', NEW p \in Process, NEW label,
           pc' = [pc EXCEPT ![p] = label],
           pc[p] \in {"put", "mark", "fire", "verify", "store"},
           label \notin {"put", "mark", "fire", "verify", "store"},
           label \in {"done", "failed"} \/ pc[p] \in {"verify", "store"},
           lock' = NoOne, UNCHANGED status,
           region' = {} \/ (pc[p] # "verify" /\ UNCHANGED region)
    PROVE  LockInv'
<1>1. pc \in [Process -> Labels]
  BY DEF LockInv, TypeOK
<1>2. lock = p
  BY DEF LockInv
<1>3. \A q \in Process : pc'[q] \notin {"put", "mark", "fire", "verify", "store"}
  BY <1>1, <1>2 DEF LockInv
<1>4. region' = {}
  BY <1>2 DEF LockInv
<1>5. \A w \in Writers :
         /\ pc'[w] \notin {"mark", "fire", "done", "failed"}
               => status'[w] = "Absent"
         /\ pc'[w] = "mark" => status'[w] = "Unverified"
  BY <1>1 DEF LockInv, Process, Viewers
<1>. QED
  BY <1>3, <1>4, <1>5 DEF LockInv

(* The reads of Database::snapshot: they write nothing. *)
LEMMA ReadKeepsLockInv ==
    ASSUME LockInv, NEW p \in Viewers, Read(p)
    PROVE  LockInv'
<1>. USE DEF Goto, dag, reading, intake, pass, watch
<1>0. TypeOK /\ p \in Process
  BY DEF LockInv, Process
<1>1. CASE ProbeTips(p)
  <2>1. TypeOK'
    BY <1>0, <1>1, WalksInside DEF ProbeTips, TypeOK, Labels
  <2>. QED
    BY <1>0, <1>1, <2>1, FreeMove, Zenon DEF ProbeTips
<1>2. CASE ProbeStatus(p)
  <2>1. PICK label \in {"wantVerify", "view"} : pc' = [pc EXCEPT ![p] = label]
    BY <1>2 DEF ProbeStatus
  <2>2. scan' \in [Viewers -> SUBSET ID]
    BY <1>0, <1>2 DEF ProbeStatus, TypeOK
  <2>3. TypeOK'
    BY <1>0, <1>2, <2>1, <2>2 DEF ProbeStatus, TypeOK, Labels
  <2>. QED
    BY <1>0, <1>2, <2>1, <2>3, FreeMove, Zenon DEF ProbeStatus
<1>3. CASE ProbeError(p)
  <2>1. TypeOK'
    BY <1>0, <1>3 DEF ProbeError, TypeOK, Labels
  <2>. QED
    BY <1>0, <1>3, <2>1, FreeMove, Zenon DEF ProbeError
<1>4. CASE StartScan(p)
  <2>1. TypeOK'
    BY <1>0, <1>4, WalksInside DEF StartScan, TypeOK, Labels
  <2>. QED
    BY <1>0, <1>4, <2>1, FreeMove, Zenon DEF StartScan
<1>5. CASE ReadError(p)
  <2>1. TypeOK'
    BY <1>0, <1>5 DEF ReadError, ForgetReads, TypeOK, Labels
  <2>. QED
    BY <1>0, <1>5, <2>1, FreeMove, Zenon DEF ReadError
<1>6. CASE \E e \in ID : ScanEntry(p, e)
  <2>1. TypeOK'
    BY <1>0, <1>6 DEF ScanEntry, TypeOK, Labels
  <2>. QED
    BY <1>0, <1>6, <2>1 DEF ScanEntry, LockInv, With
<1>. QED
  BY <1>1, <1>2, <1>3, <1>4, <1>5, <1>6 DEF Read

(* Events move cursors only (Instance::spawn_write_callbacks). *)
LEMMA FireTypes ==
    ASSUME TypeOK, NEW post \in SUBSET ID, Fire(post)
    PROVE  /\ cursor' \in [Callbacks -> SUBSET ID]
           /\ first' \in [Callbacks -> SUBSET ID]
           /\ reported' \in [Callbacks -> SUBSET ID]
<1>1. \A c \in Callbacks : IdsAdded(cursor[c], post) \subseteq ID
  BY IdsAddedInside
<1>. QED
  BY <1>1 DEF TypeOK, Fire

(* Database::verify, under the tree lock. *)
LEMMA VerifyKeepsLockInv ==
    ASSUME LockInv, NEW p \in Process, Verify(p)
    PROVE  LockInv'
<1>. USE DEF Goto, dag, reading, intake, pass, watch
<1>0. TypeOK
  BY DEF LockInv
<1>1. CASE VerifyLock(p)
  <2>1. TypeOK'
    BY <1>0, <1>1, WalksInside DEF VerifyLock, TypeOK, Labels
  <2>. QED
    BY <1>0, <1>1, <2>1, TakeLock, WalksInside, Zenon DEF VerifyLock
<1>2. CASE VerifyDone(p)
  <2>. DEFINE label == IF p \in Receivers THEN "done" ELSE "view"
  <2>1. /\ cursor' \in [Callbacks -> SUBSET ID]
        /\ first' \in [Callbacks -> SUBSET ID]
        /\ reported' \in [Callbacks -> SUBSET ID]
    BY <1>0, <1>2, FireTypes DEF VerifyDone, TypeOK
  <2>2. TypeOK'
    BY <1>0, <1>2, <2>1 DEF VerifyDone, ForgetPass, TypeOK, Labels
  <2>3. pc' = [pc EXCEPT ![p] = label]
    BY <1>2 DEF VerifyDone
  <2>4. /\ pc[p] = "verify" /\ lock' = NoOne
        /\ UNCHANGED status /\ region' = {}
    BY <1>2 DEF VerifyDone, ForgetPass
  <2>5. CASE p \in Receivers
    BY <2>2, <2>3, <2>4, <2>5, DropLock, Zenon
  <2>6. CASE p \notin Receivers
    BY <2>2, <2>3, <2>4, <2>6, DropLock, Zenon
  <2>. QED
    BY <2>5, <2>6
<1>3. CASE VerifyFail(p)
  <2>. DEFINE label == IF p \in Receivers THEN "done" ELSE "view"
  <2>1. TypeOK'
    BY <1>0, <1>3 DEF VerifyFail, ForgetPass, TypeOK, Labels
  <2>2. pc' = [pc EXCEPT ![p] = label]
    BY <1>3 DEF VerifyFail
  <2>4. /\ pc[p] = "verify" /\ lock' = NoOne
        /\ UNCHANGED status /\ region' = {}
    BY <1>3 DEF VerifyFail, ForgetPass
  <2>5. CASE p \in Receivers
    BY <2>1, <2>2, <2>4, <2>5, DropLock, Zenon
  <2>6. CASE p \notin Receivers
    BY <2>1, <2>2, <2>4, <2>6, DropLock, Zenon
  <2>. QED
    BY <2>5, <2>6
<1>4. ASSUME NEW e \in ID, VerifyEntry(p, e)
      PROVE  LockInv'
  <2>1. Decision(e) \in {"Unverified", "Verified", "Failed"}
    BY DEF Decision
  <2>2. TypeOK'
    BY <1>0, <1>4, <2>1 DEF VerifyEntry, TypeOK
  <2>3. status[e] = "Unverified"
    BY <1>4 DEF VerifyEntry, LockInv, With
  <2>4. lock = p
    BY <1>4 DEF VerifyEntry, LockInv
  <2>5. \A w \in Writers :
           /\ pc'[w] \notin {"mark", "fire", "done", "failed"}
                 => status'[w] = "Absent"
           /\ pc'[w] = "mark" => status'[w] = "Unverified"
    BY <1>0, <1>4, <2>3, <2>4 DEF VerifyEntry, LockInv, TypeOK, Process, Viewers, ID
  <2>6. region' \subseteq With("Unverified")'
    BY <1>0, <1>4 DEF VerifyEntry, LockInv, TypeOK, With
  <2>. QED
    BY <1>4, <2>2, <2>5, <2>6 DEF VerifyEntry, LockInv
<1>. QED
  BY <1>1, <1>2, <1>3, <1>4 DEF Verify

(* A local transaction, from its snapshot to its event. *)
LEMMA WriteKeepsLockInv ==
    ASSUME LockInv, NEW w \in Writers, Write(w)
    PROVE  LockInv'
<1>. USE DEF Goto, dag, reading, intake, pass, watch
<1>0. TypeOK /\ w \in Process /\ w \in Viewers /\ w \in ID
  BY DEF LockInv, Process, Viewers, ID
<1>1. Frontier(w) \subseteq ID
  BY <1>0 DEF Frontier, TypeOK
<1>2. CASE OpenTransaction(w)
  <2>. DEFINE label == IF Frontier(w) = {} THEN "failed" ELSE "txn"
  <2>1. pc' = [pc EXCEPT ![w] = label]
    BY <1>2 DEF OpenTransaction
  <2>2. TypeOK'
    BY <1>0, <1>1, <1>2, <2>1 DEF OpenTransaction, TypeOK, Labels
  <2>. QED
    BY <1>0, <1>2, <2>1, <2>2, FreeMove DEF OpenTransaction, ScanDone
<1>3. CASE SealTransaction(w)
  <2>. DEFINE label == IF Ancestry(base[w]) \cap world.revokes = {}
                       THEN "wantPut" ELSE "failed"
  <2>1. pc' = [pc EXCEPT ![w] = label]
    BY <1>3 DEF SealTransaction
  <2>2. SettingsTips(Frontier(w)) \subseteq ID
    BY <1>0, SettingsTipsInside
  <2>3. TypeOK'
    BY <1>0, <1>1, <1>3, <2>1, <2>2 DEF SealTransaction, TypeOK, Labels
  <2>. QED
    BY <1>0, <1>3, <2>1, <2>3, FreeMove DEF SealTransaction, ScanDone
<1>4. CASE PutLock(w)
  <2>1. TypeOK'
    BY <1>0, <1>4, WalksInside DEF PutLock, TypeOK, Labels
  <2>. QED
    BY <1>0, <1>4, <2>1, TakeLock, Zenon DEF PutLock
<1>5. CASE PutWrite(w)
  <2>1. TypeOK'
    BY <1>0, <1>5 DEF PutWrite, TypeOK, Labels
  <2>2. lock = w /\ status[w] = "Absent"
    BY <1>0, <1>5 DEF PutWrite, LockInv
  <2>3. \A q \in Process : pc'[q] \in {"put", "mark", "fire", "verify", "store"}
                              => lock' = q
    BY <1>0, <1>5, <2>2 DEF PutWrite, LockInv, TypeOK
  <2>4. \A v \in Writers :
           /\ pc'[v] \notin {"mark", "fire", "done", "failed"}
                 => status'[v] = "Absent"
           /\ pc'[v] = "mark" => status'[v] = "Unverified"
    BY <1>0, <1>5 DEF PutWrite, LockInv, TypeOK, Process, Viewers, ID
  <2>5. region' \subseteq With("Unverified")'
    BY <1>0, <1>5 DEF PutWrite, LockInv, TypeOK, With
  <2>6. region' # {} => \E q \in Process : pc'[q] = "verify"
    BY <1>0, <1>5 DEF PutWrite, LockInv, TypeOK
  <2>. QED
    BY <2>1, <2>3, <2>4, <2>5, <2>6 DEF LockInv
<1>6. CASE PutMark(w)
  <2>1. TypeOK'
    BY <1>0, <1>6 DEF PutMark, TypeOK, Labels
  <2>2. lock = w
    BY <1>0, <1>6 DEF PutMark, LockInv
  <2>3. region = {}
    BY <1>6, <2>2 DEF PutMark, LockInv
  <2>4. \A q \in Process : pc'[q] \in {"put", "mark", "fire", "verify", "store"}
                              => lock' = q
    BY <1>0, <1>6, <2>2 DEF PutMark, LockInv, TypeOK
  <2>5. \A v \in Writers :
           /\ pc'[v] \notin {"mark", "fire", "done", "failed"}
                 => status'[v] = "Absent"
           /\ pc'[v] = "mark" => status'[v] = "Unverified"
    BY <1>0, <1>6 DEF PutMark, LockInv, TypeOK, Process, Viewers, ID
  <2>. QED
    BY <1>6, <2>1, <2>3, <2>4, <2>5 DEF PutMark, LockInv
<1>7. CASE PutFire(w)
  <2>1. /\ cursor' \in [Callbacks -> SUBSET ID]
        /\ first' \in [Callbacks -> SUBSET ID]
        /\ reported' \in [Callbacks -> SUBSET ID]
    BY <1>0, <1>7, FireTypes, WalksInside DEF PutFire
  <2>2. TypeOK'
    BY <1>0, <1>7, <2>1 DEF PutFire, ForgetReads, TypeOK, Labels
  <2>. QED
    BY <1>0, <1>7, <2>2, DropLock, Zenon DEF PutFire
<1>8. CASE PutFail(w)
  <2>1. TypeOK'
    BY <1>0, <1>8 DEF PutFail, ForgetReads, TypeOK, Labels
  <2>. QED
    BY <1>0, <1>8, <2>1, DropLock, Zenon DEF PutFail
<1>. QED
  BY <1>0, <1>2, <1>3, <1>4, <1>5, <1>6, <1>7, <1>8, ReadKeepsLockInv,
     VerifyKeepsLockInv DEF Write

(* Database::on_write. *)
LEMMA WatchKeepsLockInv ==
    ASSUME LockInv, NEW c \in Callbacks, Watch(c)
    PROVE  LockInv'
<1>. USE DEF Goto, dag, reading, intake, pass, watch
<1>0. TypeOK /\ c \in Process /\ c \in Viewers
  BY DEF LockInv, Process, Viewers
<1>1. CASE ReadCursor(c)
  <2>1. Frontier(c) \subseteq ID
    BY <1>0 DEF Frontier, TypeOK
  <2>2. TypeOK'
    BY <1>0, <1>1, <2>1 DEF ReadCursor, TypeOK, Labels
  <2>. QED
    BY <1>0, <1>1, <2>2, FreeMove, Zenon DEF ReadCursor, ScanDone
<1>2. CASE RegisterCallback(c)
  <2>1. TypeOK'
    BY <1>0, <1>2 DEF RegisterCallback, ForgetReads, TypeOK, Labels
  <2>. QED
    BY <1>0, <1>2, <2>1, FreeMove, Zenon DEF RegisterCallback
<1>. QED
  BY <1>0, <1>1, <1>2, ReadKeepsLockInv, VerifyKeepsLockInv DEF Watch

(* Instance::put_remote_entries. *)
LEMMA IngestKeepsLockInv ==
    ASSUME LockInv, NEW d \in Receivers,
           Ingest(d) \/ \E B \in SUBSET Remote : Receive(d, B)
    PROVE  LockInv'
<1>. USE DEF Goto, dag, reading, intake, pass, watch
<1>0. TypeOK /\ d \in Process
  BY DEF LockInv, Process
<1>1. ASSUME NEW B \in SUBSET Remote, Receive(d, B)
      PROVE  LockInv'
  <2>1. TypeOK'
    BY <1>0, <1>1 DEF Receive, TypeOK, Labels
  <2>. QED
    BY <1>0, <1>1, <2>1, FreeMove, Zenon DEF Receive
<1>2. CASE StoreLock(d)
  <2>1. TypeOK'
    BY <1>0, <1>2 DEF StoreLock, TypeOK, Labels
  <2>. QED
    BY <1>0, <1>2, <2>1, TakeLock, Zenon DEF StoreLock
<1>3. CASE StoreDone(d)
  <2>. DEFINE label == IF stored[d] THEN "wantVerify" ELSE "done"
  <2>1. pc' = [pc EXCEPT ![d] = label]
    BY <1>3 DEF StoreDone
  <2>2. TypeOK'
    BY <1>0, <1>3, <2>1 DEF StoreDone, TypeOK, Labels
  <2>. QED
    BY <1>0, <1>3, <2>1, <2>2, DropLock, Zenon DEF StoreDone
<1>4. ASSUME NEW e \in ID, StoreEntry(d, e)
      PROVE  LockInv'
  <2>1. /\ e \in Remote
        /\ \A o \in ID : status'[o] = status[o]
                          \/ (o = e /\ status[e] = "Absent"
                                    /\ status'[e] = "Unverified")
    BY <1>0, <1>4 DEF StoreEntry, TypeOK
  <2>2. /\ status' \in [ID -> {"Absent", "Unverified", "Verified", "Failed"}]
        /\ stored' \in [Receivers -> BOOLEAN]
    BY <1>0, <1>4, Zenon DEF StoreEntry, TypeOK
  <2>3. TypeOK'
    BY <1>0, <1>4, <2>2, Zenon DEF StoreEntry, TypeOK
  <2>4. \A w \in Writers : status'[w] = status[w]
    BY <2>1, TasksAndEntriesDistinct DEF ID
  <2>5. region' \subseteq With("Unverified")'
    BY <1>0, <1>4, <2>1 DEF StoreEntry, LockInv, TypeOK, With
  <2>. QED
    BY <1>4, <2>3, <2>4, <2>5 DEF StoreEntry, LockInv
<1>. QED
  BY <1>0, <1>1, <1>2, <1>3, <1>4, VerifyKeepsLockInv DEF Ingest

(* The process dies between any two calls and starts again. *)
LEMMA CrashKeepsLockInv ==
    ASSUME LockInv, Crash
    PROVE  LockInv'
<1>0. TypeOK
  BY DEF LockInv
<1>1. TypeOK'
  <2>1. lock' \in Process \cup {NoOne} /\ pc' \in [Process -> Labels]
    BY DEF Crash, Labels
  <2>2. /\ crashes' \in 0..MaxCrashes
        /\ status' \in [ID -> {"Absent", "Unverified", "Verified", "Failed"}]
        /\ synced' \in BOOLEAN /\ world' \in Worlds
        /\ parents' \in [ID -> SUBSET ID] /\ pin' \in [ID -> SUBSET ID]
        /\ height' \in [ID -> Nat]
    BY <1>0, MaxCrashesIsNat DEF Crash, TypeOK, dag
  <2>3. stored' \in [Receivers -> BOOLEAN]
    BY Zenon DEF Crash
  <2>4. /\ scan' \in [Viewers -> SUBSET ID] /\ seen' \in [Viewers -> SUBSET ID]
        /\ view' \in [Viewers -> SUBSET ID] /\ floor' \in [Viewers -> SUBSET ID]
        /\ base' \in [Writers -> SUBSET ID] /\ prev' \in [Writers -> SUBSET ID]
        /\ batch' \in [Receivers -> SUBSET Remote]
    BY DEF Crash
  <2>5. /\ region' \subseteq ID /\ fireTips' \subseteq ID /\ promoted' \subseteq ID
        /\ cursor' \in [Callbacks -> SUBSET ID]
        /\ first' \in [Callbacks -> SUBSET ID]
        /\ reported' \in [Callbacks -> SUBSET ID]
    BY DEF Crash, ForgetPass
  <2>. QED
    BY <2>1, <2>2, <2>3, <2>4, <2>5 DEF TypeOK
<1>2. \A p \in Process : pc'[p] = IF p \in held THEN "done" ELSE "idle"
  BY DEF Crash
<1>3. \A w \in Writers : w \in Process /\ (w \notin held => status'[w] = "Absent")
  BY DEF Crash, held, ID, Process, Viewers
<1>4. region' = {}
  BY DEF Crash, ForgetPass
<1>. QED
  BY <1>1, <1>2, <1>3, <1>4 DEF LockInv

(* Every step keeps LockInv. *)
LEMMA NextKeepsLockInv == LockInv /\ [Next]_vars => LockInv'
<1>. SUFFICES ASSUME LockInv, [Next]_vars PROVE LockInv'
  OBVIOUS
<1>1. CASE SyncDelegated
  BY <1>1 DEF SyncDelegated, LockInv, TypeOK, With, dag, reading, intake, pass,
              watch
<1>2. CASE UNCHANGED vars
  BY <1>2 DEF vars, LockInv, TypeOK, With, dag, reading, intake, pass, watch
<1>. QED
  BY <1>1, <1>2, WriteKeepsLockInv, WatchKeepsLockInv, IngestKeepsLockInv,
     CrashKeepsLockInv DEF Next

(***************************************************************************)
(* Statuses                                                                *)
(***************************************************************************)

(* Only four steps write a status: the two calls of write_entry, a          *)
(* received entry, and a decision of a verify pass.                         *)
LEMMA StatusSteps ==
    ASSUME [Next]_vars
    PROVE  \/ UNCHANGED status
           \/ \E w \in Writers : PutWrite(w) \/ PutMark(w)
           \/ \E p \in Process, e \in ID : VerifyEntry(p, e)
           \/ \E d \in Receivers, e \in ID : StoreEntry(d, e)
<1>1. ASSUME NEW p, Read(p) PROVE UNCHANGED status
  BY <1>1 DEF Read, ProbeTips, ProbeStatus, ProbeError, StartScan, ReadError,
              ScanEntry
<1>2. ASSUME NEW p, Verify(p)
      PROVE  UNCHANGED status \/ \E e \in ID : VerifyEntry(p, e)
  BY <1>2 DEF Verify, VerifyLock, VerifyDone, VerifyFail
<1>3. ASSUME NEW w \in Writers, Write(w)
      PROVE  \/ UNCHANGED status \/ PutWrite(w) \/ PutMark(w)
             \/ \E e \in ID : VerifyEntry(w, e)
  BY <1>1, <1>2, <1>3 DEF Write, OpenTransaction, SealTransaction, PutLock,
                          PutFire, PutFail
<1>4. ASSUME NEW c \in Callbacks, Watch(c)
      PROVE  UNCHANGED status \/ \E e \in ID : VerifyEntry(c, e)
  BY <1>1, <1>2, <1>4 DEF Watch, ReadCursor, RegisterCallback
<1>5. ASSUME NEW d \in Receivers, Ingest(d)
      PROVE  \/ UNCHANGED status \/ \E e \in ID : StoreEntry(d, e)
             \/ \E e \in ID : VerifyEntry(d, e)
  BY <1>2, <1>5 DEF Ingest, StoreLock, StoreDone
<1>6. (\E d \in Receivers, B \in SUBSET Remote : B # {} /\ Receive(d, B))
         \/ SyncDelegated \/ Crash \/ UNCHANGED vars => UNCHANGED status
  BY DEF Receive, SyncDelegated, Crash, vars
<1>7. Writers \subseteq Process /\ Callbacks \subseteq Process
      /\ Receivers \subseteq Process
  BY DEF Process, Viewers
<1>. QED
  BY <1>3, <1>4, <1>5, <1>6, <1>7 DEF Next

(* What one of them does to the status of an entry, and whose it is. *)
LEMMA StatusChange ==
    ASSUME LockInv, [Next]_vars, NEW e \in ID, status'[e] # status[e]
    PROVE  /\ status[e] \in {"Absent", "Unverified"}
           /\ status'[e] = "Verified" =>
                \/ e \in Writers /\ pc[e] = "mark" /\ parents' = parents
                \/ Decision(e) = "Verified" /\ parents' = parents
<1>0. TypeOK
  BY DEF LockInv
<1>1. ASSUME NEW w \in Writers, PutWrite(w)
      PROVE  e = w /\ status[e] = "Absent" /\ status'[e] = "Unverified"
  BY <1>0, <1>1, Zenon DEF PutWrite, LockInv, TypeOK, ID
<1>2. ASSUME NEW w \in Writers, PutMark(w)
      PROVE  /\ e = w /\ status[e] = "Unverified" /\ pc[e] = "mark"
             /\ parents' = parents
  BY <1>0, <1>2 DEF PutMark, LockInv, TypeOK, ID, dag
<1>3. ASSUME NEW p \in Process, NEW o \in ID, VerifyEntry(p, o)
      PROVE  /\ e = o /\ status[e] = "Unverified" /\ status'[e] = Decision(e)
             /\ parents' = parents
  BY <1>0, <1>3 DEF VerifyEntry, LockInv, TypeOK, With, dag
<1>4. ASSUME NEW d \in Receivers, NEW o \in ID, StoreEntry(d, o)
      PROVE  status[e] = "Absent" /\ status'[e] = "Unverified"
  BY <1>0, <1>4 DEF StoreEntry, TypeOK
<1>. QED
  BY <1>1, <1>2, <1>3, <1>4, StatusSteps

(* LockInv is an invariant: at most one task at a time is between taking    *)
(* the tree lock and giving it back, whatever crashes and fails.            *)
THEOREM TreeLockInvariant == Spec => []LockInv
<1>1. Init => LockInv
  BY InitLockInv
<1>2. LockInv /\ [Next]_vars => LockInv'
  BY NextKeepsLockInv
<1>. QED
  BY <1>1, <1>2, PTL DEF Spec

(* Verified and Failed are final (StoreEntry, VerifyEntry, PutWrite and     *)
(* PutMark never write over them), for every handle and every failure.      *)
THEOREM SettledStatusesStay == Spec => SettledForGood
<1>. DEFINE Stay == \A e \in ID : status[e] \in {"Verified", "Failed"}
                                     => status'[e] = status[e]
<1>1. LockInv /\ [Next]_vars => Stay
  BY StatusChange
<1>2. Spec => [][Stay]_vars
  BY <1>1, TreeLockInvariant, PTL DEF Spec
<1>. QED
  BY <1>2 DEF SettledForGood

(***************************************************************************)
(* The Verified prefix, when every handle has the default view and the     *)
(* statuses can be read                                                    *)
(***************************************************************************)

DefaultViews == AllowUnverified = {} /\ "read" \notin BackendMayFail

(* How far one step moves what snapshots have seen and returned, what       *)
(* transactions are based on, and the parents of an entry about to be       *)
(* marked Verified.                                                         *)
ViewsMoveOnlyTo ==
    /\ \A q \in Viewers : /\ seen'[q] \subseteq seen[q] \cup With("Verified")
                          /\ view'[q] \subseteq view[q] \cup seen[q]
    /\ \A w \in Writers :
         /\ base'[w] \subseteq base[w] \cup seen[w]
         /\ pc'[w] = "mark" => \/ pc[w] = "mark" /\ parents'[w] = parents[w]
                               \/ parents'[w] = base[w]
    /\ \A e \in ID : status[e] # "Absent" => parents'[e] = parents[e]

(* A snapshot sees Verified entries only (verified_frontier). *)
LEMMA ReadMoves ==
    ASSUME DefaultViews, TypeOK, NEW p \in Viewers, Read(p)
    PROVE  ViewsMoveOnlyTo
<1>. USE DEF Goto, dag, ViewsMoveOnlyTo, TypeOK
<1>0. p \in Process /\ Writers \subseteq Process
  BY DEF Process, Viewers
<1>1. CASE ProbeTips(p)
  BY <1>0, <1>1 DEF ProbeTips
<1>2. CASE ProbeStatus(p)
  <2>1. pc' = [pc EXCEPT ![p] = "wantVerify"] \/ pc' = [pc EXCEPT ![p] = "view"]
    BY <1>2 DEF ProbeStatus
  <2>. QED
    BY <1>0, <1>2, <2>1 DEF ProbeStatus
<1>3. CASE ProbeError(p)
  BY <1>3 DEF ProbeError, DefaultViews
<1>4. CASE StartScan(p)
  BY <1>0, <1>4 DEF StartScan
<1>5. CASE ReadError(p)
  BY <1>5 DEF ReadError, DefaultViews
<1>6. ASSUME NEW e \in ID, ScanEntry(p, e)
      PROVE  ViewsMoveOnlyTo
  BY <1>0, <1>6 DEF ScanEntry, Visible, With, DefaultViews
<1>. QED
  BY <1>1, <1>2, <1>3, <1>4, <1>5, <1>6, Zenon DEF Read

(* Database::verify touches no view. *)
LEMMA VerifyMoves ==
    ASSUME TypeOK, NEW p \in Process, Verify(p)
    PROVE  ViewsMoveOnlyTo
<1>. USE DEF Goto, dag, reading, ViewsMoveOnlyTo, TypeOK
<1>0. Writers \subseteq Process
  BY DEF Process, Viewers
<1>1. CASE VerifyLock(p)
  BY <1>0, <1>1 DEF VerifyLock
<1>2. CASE VerifyDone(p)
  <2>1. pc' = [pc EXCEPT ![p] = "done"] \/ pc' = [pc EXCEPT ![p] = "view"]
    BY <1>2, Zenon DEF VerifyDone
  <2>. QED
    BY <1>0, <1>2, <2>1 DEF VerifyDone
<1>3. CASE VerifyFail(p)
  <2>1. pc' = [pc EXCEPT ![p] = "done"] \/ pc' = [pc EXCEPT ![p] = "view"]
    BY <1>3, Zenon DEF VerifyFail
  <2>. QED
    BY <1>0, <1>3, <2>1 DEF VerifyFail
<1>4. ASSUME NEW e \in ID, VerifyEntry(p, e)
      PROVE  ViewsMoveOnlyTo
  BY <1>0, <1>4 DEF VerifyEntry
<1>. QED
  BY <1>1, <1>2, <1>3, <1>4 DEF Verify

(* No step moves them further. *)
LEMMA StepMoves ==
    ASSUME DefaultViews, LockInv, [Next]_vars
    PROVE  ViewsMoveOnlyTo
<1>. USE DEF Goto, dag, reading
<1>0. /\ TypeOK
      /\ Writers \subseteq Process /\ Callbacks \subseteq Process
      /\ Receivers \subseteq Process
      /\ Writers \subseteq Viewers /\ Callbacks \subseteq Viewers
  BY DEF LockInv, Process, Viewers
<1>1. ASSUME NEW w \in Writers, Write(w)
      PROVE  ViewsMoveOnlyTo
  <2>1. Frontier(w) \subseteq seen[w]
    BY DEF Frontier
  <2>2. CASE OpenTransaction(w)
    <3>1. pc' = [pc EXCEPT ![w] = "failed"] \/ pc' = [pc EXCEPT ![w] = "txn"]
      BY <2>2, Zenon DEF OpenTransaction
    <3>. QED
      BY <1>0, <2>1, <2>2, <3>1 DEF OpenTransaction, ViewsMoveOnlyTo, TypeOK
  <2>3. CASE SealTransaction(w)
    <3>1. \/ pc' = [pc EXCEPT ![w] = "wantPut"]
          \/ pc' = [pc EXCEPT ![w] = "failed"]
      BY <2>3, Zenon DEF SealTransaction
    <3>. QED
      BY <1>0, <2>1, <2>3, <3>1 DEF SealTransaction, ViewsMoveOnlyTo, TypeOK
  <2>4. CASE PutLock(w)
    BY <1>0, <2>4 DEF PutLock, ViewsMoveOnlyTo, TypeOK
  <2>5. CASE PutWrite(w)
    <3>1. status[w] = "Absent" /\ w \in ID
      BY <2>5 DEF PutWrite, LockInv, ID
    <3>. QED
      BY <1>0, <2>5, <3>1 DEF PutWrite, ViewsMoveOnlyTo, TypeOK
  <2>6. CASE PutMark(w)
    BY <1>0, <2>6 DEF PutMark, ViewsMoveOnlyTo, TypeOK
  <2>7. CASE PutFire(w)
    BY <1>0, <2>7 DEF PutFire, ForgetReads, ViewsMoveOnlyTo, TypeOK
  <2>8. CASE PutFail(w)
    BY <1>0, <2>8 DEF PutFail, ForgetReads, ViewsMoveOnlyTo, TypeOK
  <2>. QED
    BY <1>0, <1>1, <2>2, <2>3, <2>4, <2>5, <2>6, <2>7, <2>8, ReadMoves,
       VerifyMoves DEF Write
<1>2. ASSUME NEW c \in Callbacks, Watch(c)
      PROVE  ViewsMoveOnlyTo
  <2>1. CASE ReadCursor(c)
    BY <1>0, <2>1 DEF ReadCursor, Frontier, ViewsMoveOnlyTo, TypeOK
  <2>2. CASE RegisterCallback(c)
    BY <1>0, <2>2 DEF RegisterCallback, ForgetReads, ViewsMoveOnlyTo, TypeOK
  <2>. QED
    BY <1>0, <1>2, <2>1, <2>2, ReadMoves, VerifyMoves DEF Watch
<1>3. ASSUME NEW d \in Receivers, Ingest(d)
      PROVE  ViewsMoveOnlyTo
  <2>1. CASE StoreLock(d)
    BY <1>0, <2>1 DEF StoreLock, ViewsMoveOnlyTo, TypeOK
  <2>2. CASE StoreDone(d)
    <3>1. \/ pc' = [pc EXCEPT ![d] = "wantVerify"]
          \/ pc' = [pc EXCEPT ![d] = "done"]
      BY <2>2, Zenon DEF StoreDone
    <3>. QED
      BY <1>0, <2>2, <3>1 DEF StoreDone, ViewsMoveOnlyTo, TypeOK
  <2>3. ASSUME NEW e \in ID, StoreEntry(d, e)
        PROVE  ViewsMoveOnlyTo
    BY <1>0, <2>3 DEF StoreEntry, ViewsMoveOnlyTo, TypeOK
  <2>. QED
    BY <1>0, <1>3, <2>1, <2>2, <2>3, VerifyMoves DEF Ingest
<1>4. ASSUME NEW d \in Receivers, NEW B \in SUBSET Remote, Receive(d, B)
      PROVE  ViewsMoveOnlyTo
  BY <1>0, <1>4 DEF Receive, ViewsMoveOnlyTo, TypeOK
<1>5. CASE SyncDelegated
  BY <1>0, <1>5 DEF SyncDelegated, ViewsMoveOnlyTo, TypeOK
<1>6. CASE Crash
  <2>1. \A p \in Process : pc'[p] # "mark"
    BY <1>6 DEF Crash
  <2>. QED
    BY <1>0, <1>6, <2>1 DEF Crash, ViewsMoveOnlyTo, TypeOK
<1>7. CASE UNCHANGED vars
  BY <1>0, <1>7 DEF vars, ViewsMoveOnlyTo, TypeOK
<1>. QED
  BY <1>1, <1>2, <1>3, <1>4, <1>5, <1>6, <1>7 DEF Next

(* PrefixInv is kept: what becomes Verified has Verified parents, and what  *)
(* is Verified stays so.                                                    *)
LEMMA NextKeepsPrefixInv ==
    ASSUME DefaultViews, PrefixInv, [Next]_vars
    PROVE  PrefixInv'
<1>1. LockInv /\ LockInv' /\ ViewsMoveOnlyTo
  BY NextKeepsLockInv, StepMoves DEF PrefixInv
<1>2. With("Verified") \subseteq With("Verified")'
  BY <1>1, StatusChange DEF With
<1>3. ASSUME NEW e \in ID, status'[e] = "Verified"
      PROVE  parents'[e] \subseteq With("Verified")'
  <2>1. CASE status[e] = "Verified"
    BY <1>1, <1>2, <2>1 DEF ViewsMoveOnlyTo, PrefixInv, PrefixClosed, With
  <2>2. CASE status[e] # "Verified" /\ e \in Writers /\ pc[e] = "mark"
             /\ parents' = parents
    BY <1>2, <2>2 DEF PrefixInv
  <2>3. CASE status[e] # "Verified" /\ Decision(e) = "Verified"
             /\ parents' = parents
    <3>1. \A q \in parents[e] : status[q] = "Verified"
      BY <2>3 DEF Decision
    <3>2. parents[e] \subseteq ID
      BY <1>1 DEF LockInv, TypeOK
    <3>. QED
      BY <1>2, <2>3, <3>1, <3>2 DEF With
  <2>. QED
    BY <1>1, <1>3, <2>1, <2>2, <2>3, StatusChange
<1>4. PrefixClosed'
  BY <1>3 DEF PrefixClosed, With
<1>5. ASSUME NEW q \in Viewers
      PROVE  /\ seen'[q] \subseteq With("Verified")'
             /\ view'[q] \subseteq With("Verified")'
  BY <1>1, <1>2 DEF ViewsMoveOnlyTo, PrefixInv
<1>6. ASSUME NEW w \in Writers
      PROVE  /\ base'[w] \subseteq With("Verified")'
             /\ pc'[w] = "mark" => parents'[w] \subseteq With("Verified")'
  <2>1. w \in Viewers
    BY DEF Viewers
  <2>. QED
    BY <1>1, <1>2, <2>1 DEF ViewsMoveOnlyTo, PrefixInv
<1>. QED
  BY <1>1, <1>4, <1>5, <1>6 DEF PrefixInv

(* The views, the bases and the Verified set of the first state. *)
LEMMA InitPrefixInv == Init => PrefixInv
<1>1. Init => LockInv
  BY InitLockInv
<1>2. Init => PrefixClosed
  BY TasksAndEntriesDistinct DEF Init, PrefixClosed, With, ID
<1>3. Init => /\ \A p \in Viewers : seen[p] = {} /\ view[p] = {}
              /\ \A w \in Writers : base[w] = {} /\ pc[w] # "mark"
  BY DEF Init, Process, Viewers
<1>. QED
  BY <1>1, <1>2, <1>3 DEF PrefixInv

(* PrefixInv is an invariant of transactions, batches and verify passes     *)
(* through default handles.                                                 *)
THEOREM PrefixInvariant ==
    ASSUME DefaultViews
    PROVE  Spec => []PrefixInv
<1>1. PrefixInv /\ [Next]_vars => PrefixInv'
  BY NextKeepsPrefixInv
<1>. QED
  BY <1>1, InitPrefixInv, PTL DEF Spec

(* With default handles and readable statuses, no interleaving of commits,  *)
(* batches, verify passes, write failures and crashes leaves an entry       *)
(* Verified above one that is not (Database::verify's "prefix-closed").     *)
THEOREM VerifiedIsPrefixClosed ==
    ASSUME DefaultViews
    PROVE  Spec => [](TypeOK /\ PrefixClosed)
<1>1. PrefixInv => TypeOK /\ PrefixClosed
  BY DEF PrefixInv, LockInv
<1>. QED
  BY <1>1, PrefixInvariant, PTL
=============================================================================
