CONSTANTS
  Peers = {client, other}
  None = None
SPECIFICATION FairSpec
INVARIANTS TypeOK StreamHasReader OneCloser
PROPERTIES AssociationEnds StreamReleased StreamEndCloses
CHECK_DEADLOCK FALSE
