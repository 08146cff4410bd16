CONSTANTS
  max_size = 3
  Wnd = 2
  MaxUp = 2
  MaxDown = 4
  Refusals = {"output", "second"}
SPECIFICATION Spec
INVARIANTS TypeOK UnackedIntact WindowCoversQueue WaitsOnlyIdle
PROPERTIES KeepsStreams
CHECK_DEADLOCK FALSE
