\* One relay and two connections share two descriptors.
SPECIFICATION LiveSpec
CONSTANTS
  PoolSize = 2
  r1 = r1
  r2 = r2
  RelayDb <- OneRelay
  NamedHost = {}
  Fd = {f1, f2}
  ServerFd = ServerFd
  WldFd = WldFd
  Free = Free
  BadFd = BadFd
  NULL = NULL
  EVENT_QUEUE_LEN = 4
  CoreBurst = 1
  OpenOnSignal = {}
  OpenStates = {"INITIAL", "WAIT_RECONNECT"}
  CloseStates = {"CONNECTING", "OPEN"}
  ReopenInCallback = FALSE
INVARIANTS TypeOK NoStaleReadiness EventsWithinRing
PROPERTIES LoopKeepsEventContext ConnectionsImplemented RelaysImplemented ConnectResolves
