\* Three relays and another party compete for three descriptors.
SPECIFICATION Spec
CONSTANTS
  Relay = {r1, r2, r3}
  NamedHost = {r3}
  Fd = {f1, f2, f3}
  Other = {ctx}
  Free = Free
  BadFd = BadFd
  OpenStates = {"INITIAL", "RESOLVING", "CONNECTING", "OPEN", "WAIT_RECONNECT"}
  CloseStates = {"INITIAL", "RESOLVING", "CONNECTING", "OPEN"}
  ReopenInCallback = FALSE
INVARIANTS ActiveOwnsSocket
PROPERTIES ClosesOwnSocket
