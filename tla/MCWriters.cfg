CONSTANTS
    Root = "root"
    Remote = {"r1", "r2"}
    Writers = {"w1"}
    Callbacks = {"c1"}
    Receivers = {"d1", "d2"}
    AllowUnverified = {}
    Unchecked = {}
    BackendMayFail = {}
    MaxCrashes = 0
    Worlds <- PinnedWorlds
    NoOne = NoOne
SPECIFICATION Spec
INVARIANT PrefixClosed SnapshotIsComplete NoUnderReport
CHECK_DEADLOCK FALSE
