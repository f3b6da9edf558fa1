\* Every call may fail, the board may stop in an assertion and lose its power.
SPECIFICATION LiveSpec
CONSTANTS
  Fails <- Call
  Modes = {0, 1, 2, 3}
  QueueLen = 1
  MaxFriends = 2
  MaxMisreads = 2
INVARIANTS TypeOK NoRejoinUnderMist OneIdentity
PROPERTIES MistStarts
