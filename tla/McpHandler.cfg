CONSTANTS
  Requests = {q1}
  Tools = {t1, t2, t3}
  Unrouted = {t2}
  BadSchema = {t3}
  MaxItems = 2
  MaxEdits = 2
SPECIFICATION Spec
INVARIANTS DispatchedIsAccounted RowsMatchReplies OneReplyPerMessage
CHECK_DEADLOCK FALSE
