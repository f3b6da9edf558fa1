\* Two friend requests and a query, on a heap that may have no room for a message.
SPECIFICATION LiveSpec
CONSTANTS
  MistConfig = MistConfig
  Sensors = Sensors
  Request = {r1, r2}
  Query = {q1}
  NoOne = NoOne
  MaxChanged = 1
  MaxRemote = 1
  NULL = NULL
  HeapBlocks = 7
INVARIANTS TypeOK AcceptsSomeone AnswersFit
PROPERTIES SignalLeadsToAcceptance ReadsAnswered
