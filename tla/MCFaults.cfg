CONSTANTS
    Root = "root"
    Remote = {"r1", "r2"}
    Writers = {"w1"}
    Callbacks = {"c1"}
    Receivers = {"d1"}
    AllowUnverified = {}
    Unchecked = {"d1"}
    BackendMayFail = {"read", "write"}
    MaxCrashes = 0
    Worlds <- MixedChain
    NoOne = NoOne
SPECIFICATION Spec
INVARIANT SnapshotIsComplete
CHECK_DEADLOCK FALSE
