CONSTANTS
  Calls = {c1, c2}
  Urls = {u1, u2}
  Identities = {i1, i2}
  Stateless = {u2}
  MaxRestarts = 1
SPECIFICATION Spec
INVARIANTS OwnSession CarriesTheSession
PROPERTIES OneHandshake KeepsContract EveryCallReturns
CHECK_DEADLOCK FALSE
