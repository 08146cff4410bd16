CONSTANTS
  Callers = {main, binder, 1, 2}
  MainThread = main
  BinderThread = binder
  Profiles = {pa, pb}
  Valid = {pa, pb}
  Conns = {}
  MaxPools = 3
  MaxSwitches = 2
  MaxInbox = 1
  Optimizing = TRUE
  None = None
SPECIFICATION Spec
INVARIANTS SwitchesToSelected
CHECK_DEADLOCK FALSE
