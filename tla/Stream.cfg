SPECIFICATION FairSpec
CONSTANTS
  MaxSeq = 3
  Budget <- OneOfEach
INVARIANT TypeOK
INVARIANT ShownInOrder
INVARIANT Durable
INVARIANT FallbackIsComplete
INVARIANT RestoredWhole
PROPERTY EndIsShown
CHECK_DEADLOCK FALSE
