SPECIFICATION Spec
CONSTANTS
  main = main
  named = named
  taken = taken
  lock = lock
  Files <- AllFiles
  Cases <- AllCases
  Options <- AllOptions
  MaxRuns = 2
  MaxCrashes = 1
INVARIANTS FinishedIsRenamed NothingLost
\* No run is left to make.
CHECK_DEADLOCK FALSE
