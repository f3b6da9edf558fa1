\* Two requests in quick succession, and nothing else going on.
SPECIFICATION Spec
CONSTANTS
  MistConfig = MistConfig
  Sensors = Sensors
  Request = {r1, r2}
  Query = {}
  NoOne = NoOne
  MaxChanged = 0
  MaxRemote = 0
  NULL = NULL
  HeapBlocks = 24
INVARIANTS AnnouncedAreAccepted
CHECK_DEADLOCK FALSE
