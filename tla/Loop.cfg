SPECIFICATION BoundedSpec
CONSTANTS
  x1 = x1
  x2 = x2
  x3 = x3
  Executions = {x1, x2, x3}
  MaxTurns = 3
  Budget <- AllUpsets
INVARIANT TypeOK
INVARIANT GapFree
INVARIANT OneEnding
INVARIANT RepeatsBounded
INVARIANT SeqsUnique
INVARIANT EndIsAnnounced
INVARIANT TurnsInSequence
INVARIANT SkipsCompleted
PROPERTY Ends
CHECK_DEADLOCK FALSE
