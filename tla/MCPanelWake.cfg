SPECIFICATION Spec
CONSTANTS
  Cfg <- MCCfg
  WakePeriods = 2
  SleepPeriods = 2
  Depth = 2
  Sources = {"BUTTON", "PUSH"}
  Builds = {FALSE}
  MaxStimuli = 2
INVARIANTS
  WakeIsLit
