CONSTANTS
  Instances = {i1}
  Clients = {c1, c2}
  Nowhere = Nowhere
  QueueSize = 1
  Affinity = TRUE
  ListenAtStart = FALSE
  MaxCommits = 2
  MaxDrops = 1
  MaxFails = 1
  MaxCloses = 1
SPECIFICATION PushSpec
INVARIANTS AnnouncementsReachTheList ChangesAreOnTheirWay
PROPERTY HealthyPushReachesEveryClient
CHECK_DEADLOCK FALSE
