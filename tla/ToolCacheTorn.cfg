CONSTANTS
  Readers = {r1}
  Writers = {w1}
  Notified = {n1}
  Mutations <- AdminMutations
  TTL = 2
  MaxLoad = 1
  BootTime = 2
  MaxTime = 5
  MaxCommits = 2
SPECIFICATION Spec
INVARIANTS SnapshotIsACommit
