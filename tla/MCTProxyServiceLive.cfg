CONSTANTS
  Callers = {main, binder, 1, 2}
  MainThread = main
  BinderThread = binder
  Profiles = {pa}
  Valid = {pa}
  Conns = {h1}
  MaxPools = 3
  MaxSwitches = 2
  MaxInbox = 1
  Optimizing = TRUE
  None = None
SPECIFICATION FairSpec
PROPERTIES DisconnectEndsProcess SwitchesSettle
CHECK_DEADLOCK FALSE
