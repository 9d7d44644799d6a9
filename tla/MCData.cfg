CONSTANTS
    ID = {1, 2, 3}
    Tree = {1, 3}
    Store <- MCStore
    Worlds <- TwoTrees
    NoCache = NoCache
    StatusWrites = {"Verified"}
    Flushers = {f1, f2}
    Putters = {p1, p2}
    Readers = {r1}
    Idle = Idle
    Txn = {t1, t2}
    UserStore = {d}
SPECIFICATION DataSpec
INVARIANTS
    StoreSnapshotAtExactInAnyOrder TipsTableExact SnapshotAtMissesNothing
    OverCapOnlyAlone ReadIsReplay BackendsAgreeOnBase
    StoreHistoryIsWhole RepeatableReads 
     MutualMergeAgrees OpenStoreDecryptsAll 
PROPERTIES ImplementsStorage ConfigOutlivesSettings
CHECK_DEADLOCK FALSE
