\* Eight events on three slots: the cursors lap each other more than twice.
SPECIFICATION Spec
CONSTANTS
  Event = {e1, e2}
  Blank = Blank
  NoEvent = NoEvent
  EVENT_QUEUE_LEN = 3
  MaxLoad = 8
INVARIANTS TypeOK CursorsAgree
PROPERTIES LossIsReported RingIsFifo
