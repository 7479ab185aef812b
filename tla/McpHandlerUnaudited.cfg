CONSTANTS
  Requests = {q1}
  Tools = {t1, t2}
  Unrouted = {}
  BadSchema = {t2}
  MaxItems = 1
  MaxEdits = 0
SPECIFICATION Spec
INVARIANTS EveryCallIsAudited
CHECK_DEADLOCK FALSE
