SPECIFICATION FairSpec
CONSTANTS
  MaxSeq = 2
  Budget <- RedisGone
PROPERTY PollCoversRedisDown
CHECK_DEADLOCK FALSE
