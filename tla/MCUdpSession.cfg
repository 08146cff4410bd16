CONSTANTS
  Names = {n1, n2, n3}
  Max = 2
  Hosts = 3
  NoName = NoName
  NoIdx = NoIdx
  Net = Net
  Other = Other
  Prefixes <- MCPrefixes
  IPs <- MCIPs
  Pool = 1
  Num = 2
  MaxInbox = 1
SPECIFICATION FairSession
INVARIANTS SessionTypeOK Consistent SendsAsMeant WaitsOnlyIdle
PROPERTIES KeepsAddresses ControlEndEnds
CHECK_DEADLOCK FALSE
