CONSTANTS
  Calls = {c1}
  Absent = Absent
  Text = Text
  TooBig = TooBig
  Configs <- SomeConfigs
  Timeouts <- SomeTimeouts
  DefaultTimeout = 600
  MaxTimeout = 3000
SPECIFICATION Spec
INVARIANTS TypeOK NoSandboxLeftBehind CleanUpIsSilent
PROPERTY KeepsContract
CHECK_DEADLOCK FALSE
