CONSTANTS
  Callers = {main, binder, 1, 2}
  MainThread = main
  BinderThread = binder
  Profiles = {pa, pb}
  Valid = {pa, pb}
  Conns = {h1}
  MaxPools = 3
  MaxSwitches = 2
  MaxInbox = 2
  Optimizing = FALSE
  None = None
SPECIFICATION Spec
SYMMETRY Nodes
INVARIANTS TypeOK LatestSwitchWins StartNotRefused NoOrphan ConfigOfLivePool RunsSelectedNode
PROPERTIES HostsOneNode
CHECK_DEADLOCK FALSE
