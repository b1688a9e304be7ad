SPECIFICATION Spec
CONSTANTS
  Configs <- MCConfigs
  Horizon = 14
INVARIANTS
  TypeOK
  NotBeforeTime
  SilenceDarkens
PROPERTIES
  OnlyUsersLight
  NeverShortens
