SPECIFICATION FairSpec
CONSTANTS
  Procs = {p1, p2}
  Menus <- MCMenus
  Devices = {d1, d2}
  Hosts = {h1, h2}
  None = None
  Cooldown = 1
  MaxFails = 1
  MaxClock = 1
INVARIANTS
  TypeOK
  NoFailureLost
  OneWinner
PROPERTIES
  KeepsPromise
  OnlyAddsInsert
  CallsEnd
