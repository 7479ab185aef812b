CONSTANTS
  Readers = {r1, r2}
  Writers = {w1}
  Notified = {n1}
  Mutations <- AnyMutation
  TTL = 1
  MaxLoad = 1
  BootTime = 1
  MaxTime = 3
  MaxCommits = 1
SPECIFICATION Spec
INVARIANTS AckedIsServed BoundedStaleness
PROPERTIES KeepsPromise EveryCallReturns ReadersShareOneLoad
