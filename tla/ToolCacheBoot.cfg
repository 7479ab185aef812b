CONSTANTS
  Readers = {r1}
  Writers = {w1}
  Notified = {n1}
  Mutations <- AnyMutation
  TTL = 2
  MaxLoad = 1
  BootTime = 0
  MaxTime = 5
  MaxCommits = 2
SPECIFICATION Spec
INVARIANTS AckedIsServed
