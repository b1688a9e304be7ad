CONSTANTS
  Clients = {alice, bob}
  None = None
  Times <- MCTimes
  HoldTicks = 2
  Faults = {}
SPECIFICATION Spec
INVARIANT TxtAgreesWhenQuiet
