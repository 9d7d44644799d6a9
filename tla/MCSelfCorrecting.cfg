CONSTANTS
  MaxEntries = 2
  MaxFaults = 1
  Background = {"b"}
SPECIFICATION Spec
INVARIANT SelfCorrecting
CHECK_DEADLOCK FALSE
