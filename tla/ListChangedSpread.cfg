CONSTANTS
  Instances = {i1, i2}
  Clients = {c1}
  Nowhere = Nowhere
  QueueSize = 1
  Affinity = FALSE
  ListenAtStart = TRUE
  MaxCommits = 1
  MaxDrops = 0
  MaxFails = 0
  MaxCloses = 0
SPECIFICATION PushSpec
PROPERTIES PushReachesEveryClient
CHECK_DEADLOCK FALSE
