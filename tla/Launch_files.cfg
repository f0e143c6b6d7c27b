SPECIFICATION Spec
CONSTANTS
  Daemons = {d1, d2}
  default = default
  other = other
  shared = shared
  Devices <- MCDevices
  Default = default
  Avds <- MCAvds
  avd_name <- MCavd_name
  Params = {std, tuned}
  Std = std
  None = None
  MaxDisturbances = 2
INVARIANTS
  OnlySystemShort
  SpawnedAsConfigured
PROPERTY RetryRecovers
