SPECIFICATION Spec
CONSTANTS
  mail1 = mail1
  unknown = unknown
  malformed = malformed
  r1 = r1
  r2 = r2
  w1 = w1
  w2 = w2
  NoJob = NoJob
  NoSlot = NoSlot
  Jobs <- MixedJobs
  ValidJobs <- MixedValid
  NamedJobs <- MixedNamed
  Requests = {r1, r2}
  Workers = {w1, w2}
  Concurrency = 1
  MaxAttempts = 2
  MaxStalled = 1
  KeepCompleted = 1
  KeepFailed = 1
  MaxResends = 1
  MaxCrashes = 1
  MaxCloses = 1
  MaxLostLocks = 1
SYMMETRY Symmetric
INVARIANTS CompletedMeansSent StartsBounded NoConcurrentHandling
  CloseCostsNothing FalseMeansNotQueued
PROPERTY DeliverySpec
\* The system stops when every call is answered and every job is settled.
CHECK_DEADLOCK FALSE
