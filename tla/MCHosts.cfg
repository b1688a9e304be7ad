SPECIFICATION Spec
CONSTANTS
  Devices = {1, 2}
  Hosts = {1, 2, 3}
  Procs <- MCProcs
  MaxUsage = 2
  QueueMax = 1
  Threshold = 2
  MaxServers = 2
  Studies <- MCStudies
INVARIANTS HostsTypeOK OkIsDelivered
PROPERTIES Delivered RedHeals
\* A host whose usage does not change and whose displays agree has nothing to do.
CHECK_DEADLOCK FALSE
