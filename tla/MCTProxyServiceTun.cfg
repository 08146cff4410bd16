CONSTANTS
  Callers = {main, binder, 1}
  MainThread = main
  BinderThread = binder
  Profiles = {pa, pb}
  Valid = {pa, pb}
  Conns = {h1}
  MaxPools = 2
  MaxSwitches = 1
  MaxInbox = 1
  Optimizing = FALSE
  None = None
SPECIFICATION Spec
PROPERTIES SwitchKeepsTun
CHECK_DEADLOCK FALSE
