CONSTANTS
  Caller = {"c", "d"}
  First = "admin"
  Other = {"n"}
  MaxUsers = 3
  MaxCrashes = 2
SPECIFICATION Spec
INVARIANT MetadataMeansInitialized
CHECK_DEADLOCK FALSE
