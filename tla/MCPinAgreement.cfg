CONSTANTS
    Root = "root"
    Remote = {"r1", "r2"}
    Writers = {"w1"}
    Callbacks = {}
    Receivers = {"d1"}
    AllowUnverified = {}
    Unchecked = {}
    BackendMayFail = {}
    MaxCrashes = 0
    Worlds <- RevokingWorlds
    NoOne = NoOne
SPECIFICATION Spec
INVARIANT CommitAgreesWithPin
CHECK_DEADLOCK FALSE
