\* Two applications and the core exchange messages on a heap that runs out.
SPECIFICATION Spec
CONSTANTS
  App = {config, sensors}
  Data = {d1, d2}
  NULL = NULL
  HeapBlocks = 9
INVARIANTS TypeOK MessagesHaveMemory
PROPERTIES QueueIsFifo
