CONSTANTS
  Instances = {i1}
  Sessions = {s1, s2}
  Posts = {p1, p2, p3}
  QueueSize = 1
  Affinity = TRUE
  Nobody = Nobody
SPECIFICATION Spec
INVARIANT AcceptedIsOnItsWay
PROPERTY PostsAreAnswered
CHECK_DEADLOCK FALSE
