SPECIFICATION BoundedSpec
CONSTANTS
  w1 = w1
  w2 = w2
  a = a
  b = b
  c1 = c1
  c2 = c2
  c3 = c3
  c4 = c4
  c5 = c5
  None = None
  Workers = {w1, w2}
  Runs = {a, b}
  Boxes = {c1, c2, c3, c4, c5}
  PoolSize = 2
  Budget <- OneOfEach
SYMMETRY Interchangeable
INVARIANT TypeOK
INVARIANT Exclusive
INVARIANT PoolKept
INVARIANT CleanStop
CHECK_DEADLOCK FALSE
