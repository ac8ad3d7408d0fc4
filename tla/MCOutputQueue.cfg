CONSTANTS
  Message <- MCMessage
  QUEUE_END = QUEUE_END
  UNDEFINED = UNDEFINED
  MaxPushed = 12
  BufSize = 1
SPECIFICATION MCFairSpec
INVARIANTS
  Fifo
  PrintedWhole
  NoLostWakeup
  PrintedReadable
PROPERTIES
  Terminates
CHECK_DEADLOCK FALSE
