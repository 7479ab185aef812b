CONSTANTS
  Calls = {c1, c2}
  Urls = {u1}
  Identities = {i1}
  Stateless = {}
  MaxRestarts = 1
SPECIFICATION Spec
INVARIANTS RemoteErrorEndsTheCall
CHECK_DEADLOCK FALSE
