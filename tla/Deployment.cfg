SPECIFICATION DeploymentSpec
CONSTANTS
  Users = {u1, u2}
  Codes = {k1, k2}
  None = None
  MaxFaults = 2
  Options <- AnyOption
  Files <- AnyFile
  MaxRuns = 3
  MaxCrashes = 2
  MaxDrift = 1
  SignUps = TRUE
INVARIANTS CheckedIsSound DoneIsTrue OneCredential EnvIsTrue
PROPERTIES CodesKept MigrationCompletes Heals
