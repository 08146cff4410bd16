CONSTANTS
  Channels = {ch1}
  Clients = {c1, c2}
  MaxDials = 2
  Retries = 2
  UseEch = TRUE
  RTTs <- MCRTTs
  ProbeTimeout = 4
  TieWindow = 1
  NoChannel = NoChannel
SPECIFICATION FairSpec
PROPERTIES ReleasedAfterClose ChannelsExitAfterClose DeadSessionRetired
CHECK_DEADLOCK FALSE
