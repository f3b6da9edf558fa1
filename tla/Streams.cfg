\* Two connections; frames as long as the ring, reads shorter than it.
SPECIFICATION LiveSpec
CONSTANTS
  PoolSize = 2
  RxRbSize = 3
  MaxRead = 2
  MaxFrame = 3
  MaxSent <- PeersSend
INVARIANTS TypeOK StreamIntact RingHasRoom
PROPERTIES CloseDropsNoFrame FramesProcessed
