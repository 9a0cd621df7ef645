SPECIFICATION Spec
CONSTANTS
  Hosts = {"api", "app", "admin", "localhost"}
  Envs <- OriginEnvs
INVARIANTS CaptchaTokenPasses
\* A process that runs, or has ended, takes no further step here.
CHECK_DEADLOCK FALSE
