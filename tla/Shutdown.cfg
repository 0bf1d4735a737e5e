SPECIFICATION BoundedSpec
CONSTANTS
  w1 = w1
  w2 = w2
  h1 = h1
  h2 = h2
  h3 = h3
  a = a
  b = b
  c = c
  chat = chat
  other = other
  None = None
  Runs = {a, b}
  Threads = {chat}
  ThreadOf <- OneThread
  Workers = {w1, w2}
  Reapers = {w2}
  Slots = {h1, h2}
  Prefetch = 1
  Cancellable = {}
  Budget <- OneUpset
  Target = w1
  MaxSignals = 2
INVARIANT NoExitUnderRun
INVARIANT ShutdownKeepsJobs
PROPERTY SignalEnds
PROPERTY NothingOrphaned
CHECK_DEADLOCK FALSE
