SPECIFICATION Spec
CONSTANTS
  Shows = {"s1", "s2"}
  Interfaces = {"i1", "i2"}
  Callers = {"c1", "c2"}
  Retries = 2
  MaxApps = 2
  MaxDaemons = 3
  MaxCalls = 2
  MaxFaults = 1
CHECK_DEADLOCK FALSE
INVARIANTS
  DaemonsAreCurrent
PROPERTIES
  SwitchesSettle
