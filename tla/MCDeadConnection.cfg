SPECIFICATION ConnectionSpec
CONSTANTS
  Caller = {"a", "b"}
  MaxRequests = 2
  MaxTorn = 1
INVARIANTS DeadStrandsNobody
CHECK_DEADLOCK FALSE
