CONSTANTS
  Instances = {i1, i2}
  Sessions = {s1, s2}
  Posts = {p1, p2, p3}
  QueueSize = 1
  Affinity = FALSE
  Nobody = Nobody
SPECIFICATION Spec
INVARIANT RespondsOnTheStream
CHECK_DEADLOCK FALSE
