SPECIFICATION Spec
CONSTANTS
  NUBQUEUELENGTH = 3
  Event = {e1, e2}
  kTRKFirstEventID = 2
  EventIdLimit = 6
PROPERTIES
  FifoSpec
