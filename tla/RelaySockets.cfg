\* How many sockets a single relay can come to hold.
SPECIFICATION Spec
CONSTANTS
  Relay = {r1}
  NamedHost = {}
  Fd = {f1, f2, f3}
  Other = {ctx}
  Free = Free
  BadFd = BadFd
  OpenStates = {"INITIAL", "WAIT_RECONNECT"}
  CloseStates = {"CONNECTING", "OPEN"}
  ReopenInCallback = FALSE
INVARIANTS OneSocketPerRelay
