CONSTANTS
  Instances = {i1}
  Clients = {c1}
  Nowhere = Nowhere
  QueueSize = 1
  Affinity = TRUE
  ListenAtStart = TRUE
  MaxCommits = 1
  MaxDrops = 0
  MaxFails = 1
  MaxCloses = 0
SPECIFICATION PushSpec
PROPERTIES PushReachesEveryClient
CHECK_DEADLOCK FALSE
