CONSTANTS
    Root = "root"
    Remote = {"r1", "r2", "r3"}
    Writers = {}
    Callbacks = {}
    Receivers = {"d1", "d2"}
    AllowUnverified = {}
    Unchecked = {"d1", "d2"}
    BackendMayFail = {}
    MaxCrashes = 0
    Worlds <- MixedWorlds3
    NoOne = NoOne
SPECIFICATION Spec
INVARIANT NoneStranded
CHECK_DEADLOCK FALSE
