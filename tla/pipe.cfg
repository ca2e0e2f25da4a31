SPECIFICATION FairSpec
CONSTANTS
  r1 = r1
  w1 = w1
  w2 = w2
  Readers = {r1}
  Writers = {w1, w2}
  Byte <- MCByte
  PIPESIZE = 2
  WORD = 4
  MAX_N = 2
  Lengths = {0, 2}
  MAX_KILLS = 1
CHECK_DEADLOCK FALSE
INVARIANTS NoLostWakeup EofIsFinal
PROPERTIES IsFifo ReaderServed
