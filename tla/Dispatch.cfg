SPECIFICATION FairSpec
CONSTANTS
  w1 = w1
  w2 = w2
  h1 = h1
  h2 = h2
  h3 = h3
  h4 = h4
  a = a
  b = b
  c = c
  chat = chat
  other = other
  None = None
  Runs = {a, b, c}
  Threads = {chat, other}
  ThreadOf <- TwoThreads
  Workers = {w1, w2}
  Reapers = {w1}
  Slots = {h1, h2}
  Prefetch = 2
  Cancellable = {a}
  Budget <- NoFaults
INVARIANT TypeOK
INVARIANT Serialized
INVARIANT NoOrphanLock
INVARIANT NoLostJob
PROPERTY AllTerminate
PROPERTY ImplementsSerialThreads
CHECK_DEADLOCK FALSE
