\* Two replicas that lag, fail and recover, and a channel of three signals.
SPECIFICATION FairSpec
CONSTANTS
  Replicas = {r1, r2}
  Lags = {0, 2}
  MaxLags = {0, 2}
  Cap = 3
  MaxChanges = 1
INVARIANTS TypeOK HalfIsTaken
PROPERTIES LagReachesWriter PauseEndsWithLag MonitorEnds
CHECK_DEADLOCK FALSE
