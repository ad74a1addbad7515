\* Two packets per channel, both platforms, every failure and any two or
\* three of them.
CONSTANTS
  Room = 2
  Interval <- AnyInterval
  DialCooldown = 1
  MaxUptime = 2
SPECIFICATION FairSpec
INVARIANTS TypeOK FailureContained
PROPERTIES LoopEndReachesPumps PumpEndReachesBridge
CHECK_DEADLOCK FALSE
