SPECIFICATION FairSpec
CONSTANTS
  w1 = w1
  w2 = w2
  h1 = h1
  h2 = h2
  h3 = h3
  h4 = h4
  a = a
  b = b
  c = c
  chat = chat
  other = other
  None = None
  Runs = {a, b}
  Threads = {chat}
  ThreadOf <- OneThread
  Workers = {w1, w2}
  Reapers = {w1, w2}
  Slots = {h1, h2, h3}
  Prefetch = 2
  Cancellable = {}
  Budget <- OneCrash
PROPERTY LockReleased
CHECK_DEADLOCK FALSE
