SPECIFICATION MCSpec
CONSTANTS
  p04 = p04  flags = flags  b1 = b1  b2 = b2  f = f  t1 = t1  t2 = t2
  Reg = {flags}
  Bit = {b1, b2}
  Task = {t1, t2}
  Poll = Poll
  Unread = {unread}
  Ops <- MCOps
  Chunks = 3
  ChunkOf <- MCChunkOf
  CtrlBlock <- MCCtrlBlock
  FullEvery = 1
  Hard = 2
  Panel = {}
  Lossy = FALSE
PROPERTY OneBitPerWrite
