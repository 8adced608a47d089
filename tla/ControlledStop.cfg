\* Run, Stop and Wait against each other: two Run calls, two Stop calls and a
\* Wait call, each racing every step of the others.
SPECIFICATION FairSpec
CONSTANTS
  Ids = {1, 2}
  NoId = NoId
  BatchSize = 1
  MaxRows = 2
  Callers = {c1, c2}
  Stoppers = {s1, s2}
  Waiters = {w1}
  MaxTouched = 0
PROPERTIES StopIsNeverLost WaitConfirmsQuiet EveryRunEnds
CHECK_DEADLOCK FALSE
