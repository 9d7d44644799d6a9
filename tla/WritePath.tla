----------------------------- MODULE WritePath ------------------------------
(***************************************************************************)
(* How one tree of an Instance is written, verified and watched:           *)
(* transactions (Database::new_transaction .. Transaction::commit ..       *)
(* Instance::put_entry), batches from peers (Instance::put_remote_entries),*)
(* the verification pass (Database::verify), the Verified view             *)
(* (Database::snapshot), and per-database write callbacks.  Each await     *)
(* between two backend calls is a place where other tasks may run.  The    *)
(* backend is the one of Storage: raw tips are computed from what is held. *)
(***************************************************************************)
EXTENDS EntryDag

CONSTANTS
    Root,             \* the root entry of the tree
    Remote,           \* entries authored elsewhere
    Writers,          \* local transactions; each is the ID of its entry
    Callbacks,        \* tasks that call Database::on_write
    Receivers,        \* tasks that ingest one batch from a peer
    AllowUnverified,  \* writers on a handle with allow_unverified set
    Unchecked,        \* receivers that do not check for missing parents
    BackendMayFail,   \* which backend calls may return an error: reads, writes
    MaxCrashes,       \* bound on the number of process crashes
    Worlds,           \* what the remote entries may be
    NoOne             \* the tree lock is free

ID == {Root} \cup Remote \cup Writers
Viewers == Writers \cup Callbacks
Process == Viewers \cup Receivers

VARIABLES
    world,      \* the remote entries of this behaviour, never changed
    parents,    \* main-tree parents of each entry
    pin,        \* settings_snapshot in the metadata of each entry
    height,     \* height of each entry
    status,     \* verification status, "Absent" when not held
    synced,     \* whether the delegated tree is held as far as needed
    lock,       \* holder of the per-tree lock
    pc,         \* where each task is
    scan,       \* entries whose status a snapshot has still to read
    seen,       \* in_prefix (or the visible tips) of that snapshot
    view,       \* the tips the last snapshot returned
    floor,      \* the Verified prefix when that snapshot began its reads
    base,       \* parents of an open transaction
    batch,      \* entries a receiver has still to store
    stored,     \* whether it has stored any
    prev,       \* tips read by put_entry before the write
    region,     \* entries the running verify pass has still to decide
    fireTips,   \* raw tips at the start of that pass
    promoted,   \* entries that pass has promoted
    cursor,     \* PerDbCallbackEntry.last_tips
    first,      \* the cursor a callback was registered with
    reported,   \* IDs its events have let it enumerate
    crashes

dag == <<world, parents, pin, height>>
reading == <<scan, seen, view, floor>>
intake == <<batch, stored>>
pass == <<region, fireTips, promoted>>
watch == <<cursor, first, reported>>

(* Tasks and the entries they write are told apart by name. *)
ASSUME TasksAndEntriesDistinct ==
    /\ Writers \cap Callbacks = {} /\ Viewers \cap Receivers = {}
    /\ NoOne \notin Process
    /\ Root \notin Remote \cup Writers /\ Remote \cap Writers = {}

(* What a remote entry names was authored before it, elsewhere. *)
ASSUME WorldsWellFormed ==
    \A w \in Worlds :
        /\ w.parents \in [Remote -> SUBSET ({Root} \cup Remote)]
        /\ w.pin \in [Remote -> SUBSET ({Root} \cup Remote)]
        /\ w.height \in [Remote -> Nat]
        /\ w.settings \subseteq Remote

(* "Entry height ... increases monotonically from parent to child" (what    *)
(* ids_added and the height-ordered scan of the tree rely on); the root is  *)
(* the one entry of height 0.                                               *)
ASSUME HeightsRise ==
    \A w \in Worlds : \A e \in Remote :
        /\ w.height[e] > 0
        /\ \A q \in w.parents[e] \ {Root} : w.height[q] < w.height[e]

ASSUME EntriesFinite == IsFiniteSet(Remote) /\ IsFiniteSet(Writers)

ASSUME MaxCrashesIsNat == MaxCrashes \in Nat

vars == <<dag, status, synced, lock, pc, reading, base, intake, prev, pass,
          watch, crashes>>

held == {e \in ID : status[e] # "Absent"}
With(st) == {e \in ID : status[e] = st}
Ancestry(S) == Reach(parents, held, S)
rawTips == Tips(parents, held)

(* "The maximal all-Verified prefix": the entries that are Verified and     *)
(* whose ancestors all are.                                                 *)
verifiedPrefix ==
    UNION {C \in SUBSET With("Verified") : \A e \in C : parents[e] \subseteq C}

Init ==
    /\ world \in Worlds
    /\ parents = [e \in ID |-> IF e \in Remote THEN world.parents[e] ELSE {}]
    /\ pin = [e \in ID |-> IF e \in Remote THEN world.pin[e] ELSE {}]
    /\ height = [e \in ID |-> IF e \in Remote THEN world.height[e] ELSE 0]
    /\ status = [e \in ID |-> IF e = Root THEN "Verified" ELSE "Absent"]
    /\ synced = FALSE
    /\ lock = NoOne
    /\ pc = [p \in Process |-> "idle"]
    /\ scan = [p \in Viewers |-> {}]
    /\ seen = [p \in Viewers |-> {}]
    /\ view = [p \in Viewers |-> {}]
    /\ floor = [p \in Viewers |-> {}]
    /\ base = [w \in Writers |-> {}]
    /\ batch = [d \in Receivers |-> {}]
    /\ stored = [d \in Receivers |-> FALSE]
    /\ prev = [w \in Writers |-> {}]
    /\ region = {} /\ fireTips = {} /\ promoted = {}
    /\ cursor = [c \in Callbacks |-> {}]
    /\ first = [c \in Callbacks |-> {}]
    /\ reported = [c \in Callbacks |-> {}]
    /\ crashes = 0

Goto(p, label) == pc' = [pc EXCEPT ![p] = label]

(* The locals of a finished call go out of scope. *)
ForgetReads(p) ==
    /\ scan' = [scan EXCEPT ![p] = {}]
    /\ seen' = [seen EXCEPT ![p] = {}]
    /\ view' = [view EXCEPT ![p] = {}]
    /\ floor' = [floor EXCEPT ![p] = {}]

ForgetPass == region' = {} /\ fireTips' = {} /\ promoted' = {}

(***************************************************************************)
(* Database::snapshot                                                      *)
(***************************************************************************)

(* The raw tips.  A writer comes here to open its transaction and again, in *)
(* commit, to pin the settings.                                             *)
ProbeTips(p) ==
    /\ pc[p] \in {"idle", "txn"}
    /\ scan' = [scan EXCEPT ![p] = rawTips]
    /\ seen' = [seen EXCEPT ![p] = {}]
    /\ floor' = [floor EXCEPT ![p] = verifiedPrefix]
    /\ Goto(p, "probe")
    /\ UNCHANGED <<dag, status, synced, lock, view, base, intake, prev, pass,
                   watch, crashes>>

(* Their statuses: an Unverified tip, or one whose status cannot be read,   *)
(* makes the reader run a verify pass, and read the tips again after it.    *)
ProbeStatus(p) ==
    /\ pc[p] = "probe"
    /\ \/ /\ \/ scan[p] \cap With("Unverified") # {}
             \/ "read" \in BackendMayFail
          /\ Goto(p, "wantVerify")
          /\ scan' = [scan EXCEPT ![p] = {}]
       \/ /\ scan[p] \cap With("Unverified") = {}
          /\ Goto(p, "view")
          /\ UNCHANGED scan
    /\ UNCHANGED <<dag, status, synced, lock, seen, view, floor, base, intake,
                   prev, pass, watch, crashes>>

(* When the status of the first tip cannot be read, the raw tips are        *)
(* returned as they are (the code takes the error for a remote backend).    *)
ProbeError(p) ==
    /\ "read" \in BackendMayFail
    /\ pc[p] = "probe"
    /\ scan' = [scan EXCEPT ![p] = {}]
    /\ seen' = [seen EXCEPT ![p] = scan[p]]
    /\ Goto(p, "scan")
    /\ UNCHANGED <<dag, status, synced, lock, view, floor, base, intake, prev,
                   pass, watch, crashes>>

(* The default view reads the status of every entry of the tree, an         *)
(* allow_unverified view that of the raw tips.                              *)
StartScan(p) ==
    /\ pc[p] = "view"
    /\ scan' = [scan EXCEPT ![p] = IF p \notin AllowUnverified THEN held
                                   ELSE IF scan[p] = {} THEN rawTips
                                   ELSE scan[p]]
    /\ Goto(p, "scan")
    /\ UNCHANGED <<dag, status, synced, lock, seen, view, floor, base, intake,
                   prev, pass, watch, crashes>>

(* A faulty variant of Visible: every view keeps what has not Failed. *)
VisibleAnyStatus(p, e) == status[e] # "Failed"

(* One status read of verified_frontier, parents before children; or of the *)
(* loop that drops Failed tips.                                             *)
Visible(p, e) ==
    IF p \in AllowUnverified THEN status[e] # "Failed"
    ELSE status[e] = "Verified" /\ parents[e] \subseteq seen[p]

ScanEntry(p, e) ==
    /\ pc[p] = "scan"
    /\ e \in scan[p]
    /\ \A o \in scan[p] : height[e] <= height[o]
    /\ scan' = [scan EXCEPT ![p] = @ \ {e}]
    /\ seen' = [seen EXCEPT ![p] = IF Visible(p, e) THEN @ \cup {e} ELSE @]
    /\ UNCHANGED <<dag, status, synced, lock, pc, view, floor, base, intake,
                   prev, pass, watch, crashes>>

(* A faulty variant of Frontier: hidden children hide their parents. *)
FrontierOfRawTips(p) == seen[p] \ UNION {parents[e] : e \in held}

(* What the snapshot returns: the tips of in_prefix, or the visible tips. *)
Frontier(p) == IF p \in AllowUnverified THEN seen[p]
               ELSE seen[p] \ UNION {parents[e] : e \in seen[p]}

ScanDone(p) == pc[p] = "scan" /\ scan[p] = {}

(* Tips, a tree or a status that cannot be read here fail the call that the *)
(* snapshot is for.                                                         *)
ReadError(p) ==
    /\ "read" \in BackendMayFail
    /\ \/ pc[p] \in {"idle", "txn", "view"}
       \/ pc[p] = "scan" /\ scan[p] # {}
    /\ Goto(p, "failed")
    /\ ForgetReads(p)
    /\ base' = [b \in Writers |-> IF b = p THEN {} ELSE base[b]]
    /\ UNCHANGED <<dag, status, synced, lock, intake, prev, pass, watch,
                   crashes>>

(***************************************************************************)
(* Transaction::new_at and Transaction::commit                             *)
(***************************************************************************)

settingsEntries == {Root} \cup world.settings

(* store_snapshot_at(SETTINGS): the latest settings entries below `tips`. *)
SettingsTips(tips) ==
    LET S == Ancestry(tips) \cap settingsEntries
    IN  {s \in S : \A o \in S \ {s} : s \notin Ancestry(parents[o])}

(* Opens the transaction at the snapshot; an empty snapshot is an error. *)
OpenTransaction(w) ==
    /\ ScanDone(w)
    /\ base[w] = {}
    /\ view' = [view EXCEPT ![w] = Frontier(w)]
    /\ base' = [base EXCEPT ![w] = Frontier(w)]
    /\ Goto(w, IF Frontier(w) = {} THEN "failed" ELSE "txn")
    /\ UNCHANGED <<dag, status, synced, lock, scan, seen, floor, intake, prev,
                   pass, watch, crashes>>

(* commit: pins the settings of the current snapshot, and validates the     *)
(* entry against the settings below the transaction's own parents.          *)
SealTransaction(w) ==
    /\ ScanDone(w)
    /\ base[w] # {}
    /\ view' = [view EXCEPT ![w] = Frontier(w)]
    /\ pin' = [pin EXCEPT ![w] = SettingsTips(Frontier(w))]
    /\ Goto(w, IF Ancestry(base[w]) \cap world.revokes = {} THEN "wantPut"
               ELSE "failed")
    /\ UNCHANGED <<world, parents, height, status, synced, lock, scan, seen,
                   floor, base, intake, prev, pass, watch, crashes>>

(***************************************************************************)
(* Write events: Instance::spawn_write_callbacks and Database::ids_added   *)
(***************************************************************************)

(* A faulty variant of Backward: heights that are level count as backward. *)
BackwardOrLevel(from, to) ==
    /\ from # {} /\ to # {}
    /\ from \cup to \subseteq held
    /\ \A a \in from, b \in to : height[a] >= height[b]

(* The guard of ids_added against a cursor that moved backward. *)
Backward(from, to) ==
    /\ from # {} /\ to # {}
    /\ from \cup to \subseteq held
    /\ \A a \in from, b \in to : height[a] > height[b]

(* The walk of ids_added from `to`, which halts at members of `from`; an    *)
(* entry that is not held makes it an error, and nothing is enumerated.     *)
IdsAdded(from, to) ==
    LET walk == Reach(parents, ID \ from, to)
    IN  IF from = to \/ Backward(from, to) \/ ~ walk \subseteq held THEN {}
        ELSE walk

(* Every registered callback gets the bracket from its own cursor, and its  *)
(* cursor moves to the tips after the write.                                *)
Fire(post) ==
    /\ cursor' = [c \in Callbacks |->
                    IF pc[c] = "on" THEN post ELSE cursor[c]]
    /\ reported' = [c \in Callbacks |->
                      IF pc[c] = "on"
                      THEN reported[c] \cup IdsAdded(cursor[c], post)
                      ELSE reported[c]]
    /\ UNCHANGED first

(***************************************************************************)
(* Instance::put_entry for a local commit                                  *)
(***************************************************************************)

PutLock(w) ==
    /\ pc[w] = "wantPut"
    /\ lock = NoOne
    /\ lock' = w
    /\ prev' = [prev EXCEPT ![w] = rawTips]
    /\ Goto(w, "put")
    /\ UNCHANGED <<dag, status, synced, reading, base, intake, pass, watch,
                   crashes>>

(* LocalBackend::write_entry, first call: the entry is stored Unverified. *)
PutWrite(w) ==
    /\ pc[w] = "put"
    /\ parents' = [parents EXCEPT ![w] = base[w]]
    /\ \E b \in base[w] :
         /\ \A o \in base[w] : height[o] <= height[b]
         /\ height' = [height EXCEPT ![w] = height[b] + 1]
    /\ status' = [status EXCEPT ![w] = "Unverified"]
    /\ Goto(w, "mark")
    /\ UNCHANGED <<world, pin, synced, lock, reading, base, intake, prev, pass,
                   watch, crashes>>

(* Second call: commit stores its entries Verified. *)
PutMark(w) ==
    /\ pc[w] = "mark"
    /\ status' = [status EXCEPT ![w] = "Verified"]
    /\ Goto(w, "fire")
    /\ UNCHANGED <<dag, synced, lock, reading, base, intake, prev, pass, watch,
                   crashes>>

PutFire(w) ==
    /\ pc[w] = "fire"
    /\ Fire(rawTips)
    /\ lock' = NoOne
    /\ Goto(w, "done")
    /\ ForgetReads(w)
    /\ base' = [base EXCEPT ![w] = {}]
    /\ prev' = [prev EXCEPT ![w] = {}]
    /\ UNCHANGED <<dag, status, synced, intake, pass, crashes>>

(* An error of either call, or of the snapshot after them, ends put_entry:  *)
(* what was written stays, and there is no event.                           *)
PutFail(w) ==
    /\ BackendMayFail # {}
    /\ pc[w] \in {"put", "mark", "fire"}
    /\ lock' = NoOne
    /\ Goto(w, "failed")
    /\ ForgetReads(w)
    /\ base' = [base EXCEPT ![w] = {}]
    /\ prev' = [prev EXCEPT ![w] = {}]
    /\ UNCHANGED <<dag, status, synced, intake, pass, watch, crashes>>

(***************************************************************************)
(* Instance::put_remote_entries                                            *)
(***************************************************************************)

(* A batch arrives.  BackgroundSync refuses one in which a parent is        *)
(* neither held nor part of the batch; the SendEntries handler and the      *)
(* pull paths of Sync do not look.                                          *)
Receive(d, B) ==
    /\ pc[d] = "idle"
    /\ d \notin Unchecked =>
         \A e \in B : world.parents[e] \subseteq held \cup B
    /\ batch' = [batch EXCEPT ![d] = B]
    /\ stored' = [stored EXCEPT ![d] = FALSE]
    /\ Goto(d, "wantStore")
    /\ UNCHANGED <<dag, status, synced, lock, reading, base, prev, pass,
                   watch, crashes>>

StoreLock(d) ==
    /\ pc[d] = "wantStore"
    /\ lock = NoOne
    /\ lock' = d
    /\ Goto(d, "store")
    /\ UNCHANGED <<dag, status, synced, reading, base, intake, prev, pass,
                   watch, crashes>>

(* Puts one entry; an entry that is held keeps its status.  A failure is    *)
(* logged and the loop goes on.                                             *)
StoreEntry(d, e) ==
    /\ pc[d] = "store"
    /\ e \in batch[d]
    /\ batch' = [batch EXCEPT ![d] = @ \ {e}]
    /\ \/ /\ status' = [status EXCEPT ![e] =
                            IF @ = "Absent" THEN "Unverified" ELSE @]
          /\ stored' = [stored EXCEPT ![d] = TRUE]
       \/ "write" \in BackendMayFail /\ UNCHANGED <<status, stored>>
    /\ UNCHANGED <<dag, synced, lock, pc, reading, base, prev, pass, watch,
                   crashes>>

(* The lock is released before the verify pass takes it again. *)
StoreDone(d) ==
    /\ pc[d] = "store"
    /\ batch[d] = {}
    /\ lock' = NoOne
    /\ Goto(d, IF stored[d] THEN "wantVerify" ELSE "done")
    /\ UNCHANGED <<dag, status, synced, reading, base, intake, prev, pass,
                   watch, crashes>>

(***************************************************************************)
(* Database::verify                                                        *)
(***************************************************************************)

(* A faulty variant of UnverifiedRegion: the walk stops at the tips. *)
UnverifiedTipsOnly == rawTips \cap With("Unverified")

(* The walk from the raw tips through Unverified entries only. *)
UnverifiedRegion ==
    Reach(parents, With("Unverified"), rawTips)

VerifyLock(p) ==
    /\ pc[p] = "wantVerify"
    /\ lock = NoOne
    /\ lock' = p
    /\ region' = UnverifiedRegion
    /\ fireTips' = rawTips
    /\ promoted' = {}
    /\ Goto(p, "verify")
    /\ UNCHANGED <<dag, status, synced, reading, base, intake, prev, watch,
                   crashes>>

(* get_historical_settings_for_entry: the pin and all its ancestors. *)
PinComplete(e) == Reach(parents, ID, pin[e]) \subseteq held

(* AuthValidator::validate_entry against the pinned settings.  An entry     *)
(* signed through a delegated tree not held far enough cannot be resolved,  *)
(* which validate_entry reports as false.  A local entry is valid as long   *)
(* as the pinned settings do not revoke its key.                            *)
Valid(e) ==
    CASE e \in Writers -> Ancestry(pin[e]) \cap world.revokes = {}
      [] e \in Remote -> \/ world.verdict[e] = "valid"
                         \/ world.verdict[e] = "delegated" /\ synced
      [] OTHER -> TRUE

(* What the pass decides for e: a Failed parent fails it, an Unverified or  *)
(* missing parent or an incomplete pin leaves it for a later pass.          *)
Decision(e) ==
    CASE \E q \in parents[e] : status[q] = "Failed" -> "Failed"
      [] OTHER ->
           IF \/ \E q \in parents[e] : status[q] # "Verified"
              \/ ~ PinComplete(e)
           THEN "Unverified"
           ELSE IF Valid(e) THEN "Verified" ELSE "Failed"

VerifyEntry(p, e) ==
    /\ pc[p] = "verify"
    /\ e \in region
    /\ parents[e] \cap region = {}
    /\ region' = region \ {e}
    /\ status' = [status EXCEPT ![e] = Decision(e)]
    /\ promoted' = IF Decision(e) = "Verified" THEN promoted \cup {e}
                   ELSE promoted
    /\ UNCHANGED <<dag, synced, lock, pc, reading, base, intake, prev,
                   fireTips, watch, crashes>>

(* One event for all promotions, at the raw tips of the start of the pass;  *)
(* then the lock is released.                                               *)
VerifyDone(p) ==
    /\ pc[p] = "verify"
    /\ region = {}
    /\ IF promoted # {} THEN Fire(fireTips) ELSE UNCHANGED watch
    /\ lock' = NoOne
    /\ Goto(p, IF p \in Receivers THEN "done" ELSE "view")
    /\ ForgetPass
    /\ UNCHANGED <<dag, status, synced, reading, base, intake, prev, crashes>>

(* A backend error ends the pass where it is, without an event; a reader    *)
(* ignores it.                                                              *)
VerifyFail(p) ==
    /\ BackendMayFail # {}
    /\ pc[p] = "verify"
    /\ region # {}
    /\ lock' = NoOne
    /\ Goto(p, IF p \in Receivers THEN "done" ELSE "view")
    /\ ForgetPass
    /\ UNCHANGED <<dag, status, synced, reading, base, intake, prev, watch,
                   crashes>>

(***************************************************************************)
(* Database::on_write, the delegated tree, crashes                         *)
(***************************************************************************)

(* The snapshot is read first; the callback is then registered at it. *)
ReadCursor(c) ==
    /\ ScanDone(c)
    /\ view' = [view EXCEPT ![c] = Frontier(c)]
    /\ Goto(c, "register")
    /\ UNCHANGED <<dag, status, synced, lock, scan, seen, floor, base, intake,
                   prev, pass, watch, crashes>>

RegisterCallback(c) ==
    /\ pc[c] = "register"
    /\ cursor' = [cursor EXCEPT ![c] = view[c]]
    /\ first' = [first EXCEPT ![c] = view[c]]
    /\ Goto(c, "on")
    /\ ForgetReads(c)
    /\ UNCHANGED <<dag, status, synced, lock, base, intake, prev, pass,
                   reported, crashes>>

(* Another database this one delegates to arrives. *)
SyncDelegated ==
    /\ ~ synced
    /\ \E e \in Remote : world.verdict[e] = "delegated"
    /\ synced' = TRUE
    /\ UNCHANGED <<dag, status, lock, pc, reading, base, intake, prev, pass,
                   watch, crashes>>

(* The process dies between any two backend calls and is started again on   *)
(* the same (durable) backend: tasks, locks and callbacks are gone.         *)
Crash ==
    /\ crashes < MaxCrashes
    /\ crashes' = crashes + 1
    /\ lock' = NoOne
    /\ pc' = [p \in Process |->
                IF p \in held THEN "done" ELSE "idle"]
    /\ scan' = [p \in Viewers |-> {}]
    /\ seen' = [p \in Viewers |-> {}]
    /\ view' = [p \in Viewers |-> {}]
    /\ floor' = [p \in Viewers |-> {}]
    /\ base' = [w \in Writers |-> {}]
    /\ batch' = [d \in Receivers |-> {}]
    /\ stored' = [d \in Receivers |-> FALSE]
    /\ prev' = [w \in Writers |-> {}]
    /\ ForgetPass
    /\ cursor' = [c \in Callbacks |-> {}]
    /\ first' = [c \in Callbacks |-> {}]
    /\ reported' = [c \in Callbacks |-> {}]
    /\ UNCHANGED <<dag, status, synced>>

Read(p) ==
    \/ ProbeTips(p) \/ ProbeStatus(p) \/ ProbeError(p)
    \/ StartScan(p) \/ ReadError(p) \/ \E e \in ID : ScanEntry(p, e)

Verify(p) ==
    \/ VerifyLock(p) \/ VerifyDone(p) \/ VerifyFail(p)
    \/ \E e \in ID : VerifyEntry(p, e)

Write(w) ==
    \/ Read(w) \/ Verify(w)
    \/ OpenTransaction(w) \/ SealTransaction(w)
    \/ PutLock(w) \/ PutWrite(w) \/ PutMark(w) \/ PutFire(w) \/ PutFail(w)

Watch(c) == Read(c) \/ Verify(c) \/ ReadCursor(c) \/ RegisterCallback(c)

Ingest(d) ==
    \/ StoreLock(d) \/ StoreDone(d) \/ Verify(d)
    \/ \E e \in ID : StoreEntry(d, e)

Next ==
    \/ \E w \in Writers : Write(w)
    \/ \E c \in Callbacks : Watch(c)
    \/ \E d \in Receivers : Ingest(d)
    \/ \E d \in Receivers, B \in SUBSET Remote : B # {} /\ Receive(d, B)
    \/ SyncDelegated
    \/ Crash

Spec == Init /\ [][Next]_vars

(* Every task that has been spawned is polled until it finishes, and the    *)
(* tree lock is a FIFO mutex, so no task that wants it waits for ever.      *)
Fairness ==
    /\ \A w \in Writers : WF_vars(Write(w))
    /\ \A c \in Callbacks : WF_vars(Watch(c))
    /\ \A d \in Receivers : WF_vars(Ingest(d))

FairSpec == Spec /\ Fairness

(***************************************************************************)
(* Properties                                                              *)
(***************************************************************************)

Labels == {"idle", "probe", "wantVerify", "verify", "view", "scan", "txn",
           "wantPut", "put", "mark", "fire", "wantStore", "store", "register",
           "on", "done", "failed"}

(* The variables keep their types. *)
TypeOK ==
    /\ world \in Worlds
    /\ parents \in [ID -> SUBSET ID] /\ pin \in [ID -> SUBSET ID]
    /\ height \in [ID -> Nat]
    /\ status \in [ID -> {"Absent", "Unverified", "Verified", "Failed"}]
    /\ synced \in BOOLEAN
    /\ lock \in Process \cup {NoOne}
    /\ pc \in [Process -> Labels]
    /\ scan \in [Viewers -> SUBSET ID] /\ seen \in [Viewers -> SUBSET ID]
    /\ view \in [Viewers -> SUBSET ID] /\ floor \in [Viewers -> SUBSET ID]
    /\ base \in [Writers -> SUBSET ID] /\ prev \in [Writers -> SUBSET ID]
    /\ batch \in [Receivers -> SUBSET Remote]
    /\ stored \in [Receivers -> BOOLEAN]
    /\ region \subseteq ID /\ fireTips \subseteq ID /\ promoted \subseteq ID
    /\ cursor \in [Callbacks -> SUBSET ID] /\ first \in [Callbacks -> SUBSET ID]
    /\ reported \in [Callbacks -> SUBSET ID]
    /\ crashes \in 0..MaxCrashes

(* Database::verify: "It is therefore impossible for a tip to be Verified   *)
(* while one of its ancestors is not."  Promotions, local commits and       *)
(* batches interleave; a crash may leave a local commit Unverified.         *)
PrefixClosed ==
    \A e \in With("Verified") : parents[e] \subseteq With("Verified")

(* No step takes an entry out of Verified or Failed: neither a second       *)
(* delivery of it nor a verify pass nor a commit's own two-step write.      *)
SettledForGood ==
    [][\A e \in ID : status[e] \in {"Verified", "Failed"}
                        => status'[e] = status[e]]_vars

(* A default snapshot, whose status reads interleave with verify passes and *)
(* commits, only ever names entries with a complete and Verified history.   *)
SnapshotIsVerifiedCut ==
    \A p \in Viewers \ AllowUnverified :
        \E C \in SUBSET With("Verified") :
            /\ view[p] \subseteq C
            /\ \A e \in C : parents[e] \subseteq C

(* It misses nothing of the Verified prefix there was when it began to      *)
(* read, even if a status read fails; where Verified is prefix-closed, a    *)
(* commit that has returned is thus in every later snapshot.                *)
SnapshotIsComplete ==
    \A p \in Viewers \ AllowUnverified :
        pc[p] \in {"txn", "wantPut", "register"}
            => floor[p] \subseteq Ancestry(view[p])

(* Only the holder of the tree lock settles entries; a transaction's entry  *)
(* is not held before its put and is Unverified between the two calls of    *)
(* write_entry; and a verify pass has only Unverified entries left.         *)
LockInv ==
    /\ TypeOK
    /\ \A p \in Process :
         pc[p] \in {"put", "mark", "fire", "verify", "store"} => lock = p
    /\ \A w \in Writers :
         /\ pc[w] \notin {"mark", "fire", "done", "failed"}
               => status[w] = "Absent"
         /\ pc[w] = "mark" => status[w] = "Unverified"
    /\ region \subseteq With("Unverified")
    /\ region # {} => \E p \in Process : pc[p] = "verify"

(* Why Verified is prefix-closed when every handle has the default view:    *)
(* LockInv, and that nothing a snapshot returned or a transaction builds on *)
(* is less than Verified.                                                   *)
PrefixInv ==
    /\ LockInv
    /\ PrefixClosed
    /\ \A p \in Viewers :
         seen[p] \subseteq With("Verified") /\ view[p] \subseteq With("Verified")
    /\ \A w \in Writers :
         /\ base[w] \subseteq With("Verified")
         /\ pc[w] = "mark" => parents[w] \subseteq With("Verified")

(* Every Unverified entry is where the walk of the next verify pass, from   *)
(* the raw tips through Unverified entries, will find it: "by               *)
(* prefix-closure their ancestors are already settled".                     *)
NoneStranded == With("Unverified") \subseteq UnverifiedRegion

(* Events leave no gap: once the whole history of a callback's cursor is    *)
(* held, all of it was below the cursor the callback registered with or has *)
(* been enumerated to it ("can only over-report - never under-report").     *)
NoUnderReport ==
    \A c \in Callbacks :
        pc[c] = "on" /\ Reach(parents, ID, cursor[c]) \subseteq held
            => Ancestry(cursor[c]) \subseteq Ancestry(first[c]) \cup reported[c]

(* "Validation must run against the settings the entry pinned": what commit *)
(* stored as Verified is valid under the settings it pinned, so that every  *)
(* other replica will agree.                                                *)
CommitAgreesWithPin ==
    \A w \in Writers : status[w] = "Verified" => Valid(w)

(* Entries whose history and pins are all held do not stay Unverified. *)
CanSettle(e) ==
    /\ Reach(parents, ID, {e}) \subseteq held
    /\ \A a \in Reach(parents, ID, {e}) : PinComplete(a)

(* ... once such an entry is Unverified, the pass that put_remote_entries   *)
(* runs after it (or one a reader runs) decides it, if all tasks finish.    *)
EventuallySettled ==
    \A e \in ID : (status[e] = "Unverified" /\ CanSettle(e))
                     ~> status[e] \in {"Verified", "Failed"}
=============================================================================
