CONSTANTS
  MaxWindow = 2
  AuthFailFallback = 2
  Owners = {"alice", "bob"}
  None = None
  CycleTicks = 2
  FooterTicks = 2
  MaxClock = 2
  Levels = {10, 90}
  Readings <- MCReadings
  Hysteresis = 200
  Dominant = 400
  Debounce = 2
  Messages <- MCMessages
  Studies <- MCLive
CHECK_DEADLOCK FALSE
SPECIFICATION Spec
PROPERTIES StationSettles AgentsTakeTurns FooterFollowsSlot UprightAtRest
