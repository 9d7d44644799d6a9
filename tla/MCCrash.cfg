CONSTANTS
    Root = "root"
    Remote = {"r1", "r2"}
    Writers = {"w1", "w2"}
    Callbacks = {}
    Receivers = {"d1"}
    AllowUnverified = {}
    Unchecked = {}
    BackendMayFail = {}
    MaxCrashes = 1
    Worlds <- PinnedChain
    NoOne = NoOne
SPECIFICATION Spec
INVARIANT PrefixInv NoneStranded
CHECK_DEADLOCK FALSE
