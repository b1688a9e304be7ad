CONSTANTS
  Clients = {alice, bob}
  None = None
  Times <- MCTimes
  HoldTicks = 2
  Faults = {"nvs", "creds", "mdns"}
SYMMETRY Symmetry
SPECIFICATION Spec
INVARIANTS TypeOK ShownIsOwners ServedToOwners TakenIsTaken
PROPERTIES OwnerNeverReplaced ShownNeverGoesBack KeepsPromise
