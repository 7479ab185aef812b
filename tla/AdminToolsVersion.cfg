CONSTANTS
  Tasks = {t1, t2, t3}
  Fields = {enabled, config}
  Values = {off, on}
  Enabled = enabled
  Disabled = off
  Grantees = {g1}
  Absent = Absent
SPECIFICATION Spec
SYMMETRY Symmetric
PROPERTY VersionSignalsChange
CHECK_DEADLOCK FALSE
