CONSTANTS
  Tasks = {t1, t2}
  Users = {u1, u2}
  Customers = {c1}
  Codes = {k1}
  CodeOf <- OneCode
  Nobody = Nobody
  TTL = 1
  Life = 1
  MaxWait = 1
SPECIFICATION Spec
SYMMETRY Symmetric
INVARIANTS GivenRolesAreRecent CustomerIsConfirmed
