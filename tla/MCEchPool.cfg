CONSTANTS
  Channels = {ch1, ch2}
  Clients = {c1}
  MaxDials = 2
  Retries = 2
  UseEch = TRUE
  RTTs <- MCRTTs
  ProbeTimeout = 4
  TieWindow = 1
  NoChannel = NoChannel
SPECIFICATION Spec
INVARIANTS TypeOK RttOfPublishedSession OpenSessionHasOwner
SYMMETRY ChannelSymmetry
CHECK_DEADLOCK FALSE
