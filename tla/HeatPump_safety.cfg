SPECIFICATION MCSpec
CONSTANTS
  p04 = p04  flags = flags  b1 = b1  b2 = b2  f = f  t1 = t1  t2 = t2
  Reg = {flags, p04}
  Bit = {b1, f}
  Task = {t1, t2}
  Poll = Poll
  Unread = {unread}
  Ops <- MCOps
  Chunks = 3
  ChunkOf <- MCChunkOf
  CtrlBlock <- MCCtrlBlock
  FullEvery = 1
  Hard = 2
  Panel = {b1, f}
  Lossy = TRUE
INVARIANTS TypeOK OvershootBounded
PROPERTIES ForeignBitsKept EachRegisterIsCached RequestsFinish SelfHeals
