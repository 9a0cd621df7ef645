SPECIFICATION FairSpec
CONSTANTS
  p1 = p1
  p2 = p2
  Probes = {p1, p2}
  MaxChanges = 3
INVARIANTS VerdictIsTrue
PROPERTIES AnsweredOnceRedisIsBack StopFinishes
\* The process ends.
CHECK_DEADLOCK FALSE
