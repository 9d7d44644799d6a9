CONSTANTS
    PriorityMax = 1
    MaxSteps = 2
    Nonce = {n1, n2}
    Window = 2
    Skew = 2
    MaxTime = 6
    Caller = {"a", "b"}
    MaxRequests = 2
    MaxTorn = 1
    Task = {"s", "t"}
    User = {"u"}
    DbKey = {"k"}
    Tree = {"d"}
    MaxChallenges = 3
    MaxLogins = 2
    MaxChanges = 1
SPECIFICATION AccessSpec
INVARIANTS
    WithinEveryMaximum   AdminCanLogIn
     EofStrandsNobody RegisteredKeysHold 
    ApprovedIsListed 
PROPERTY BlockOutlivesLaterCalls
CHECK_DEADLOCK FALSE
