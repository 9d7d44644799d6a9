CONSTANTS
    Root = "root"
    Remote = {"r1", "r2", "r3"}
    Writers = {}
    Callbacks = {}
    Receivers = {"d1", "d2"}
    AllowUnverified = {}
    Unchecked = {"d1", "d2"}
    BackendMayFail = {}
    MaxCrashes = 0
    Worlds <- PlainWorlds3
    NoOne = NoOne
SPECIFICATION FairProgressSpec
INVARIANT LiveCallbackIsServed
PROPERTIES EventuallySettled Converges SubscribersReturn
CHECK_DEADLOCK FALSE
