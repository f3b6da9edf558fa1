\* Two contexts and another party compete for three descriptors.
SPECIFICATION Spec
CONSTANTS
  Ctx = {c1, c2}
  Fd = {f1, f2, f3}
  Other = {relay}
  Free = Free
  BadFd = BadFd
  NULL = NULL
  OpenOnDisconnect = FALSE
INVARIANTS TypeOK SocketOwnership
PROPERTIES OnlyHolderCloses
