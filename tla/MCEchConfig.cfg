CONSTANTS
  Callers = {t1}
  Profiles = {pa, pb, pc, pd}
  Valid = {pa, pb, pc, pd}
  Conns = {}
  MaxPools = 2
  None = None
  Plain = {pd}
  Answering = {pa, pb}
  Retries = 3
SPECIFICATION EchSpec
INVARIANTS EchTypeOK
PROPERTIES EchHeals ClosedChannelsExit
CHECK_DEADLOCK FALSE
