CONSTANTS
  Calls = {c1, c2}
  MaxConnections = 1
  DefaultRetries = 2
  Absent = Absent
  Configured <- SomeRetries
SPECIFICATION Spec
INVARIANTS NeverReplaysUserAction TellsTheLastEnding UsesEveryAttempt
PROPERTIES KeepsContract EveryCallReturns
CHECK_DEADLOCK FALSE
