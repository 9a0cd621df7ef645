SPECIFICATION Spec
CONSTANTS
  Statuses <- HttpStatuses
  Known <- MappedErrors
  Deliveries = {"whole", "written"}
  Catalog <- AuthApiCatalog
  Paths <- AllPaths
  Uncatalogued <- OtherEndpoints
  Summaries = {"refused", "reset"}
  Window = 3
  SetBacks = 2
INVARIANTS WholeIsEnveloped StatusAgrees FailureIsTold NativeUntouched FailureIsLogged SilenceIsShort
PROPERTIES PublicIsServed RunsOnlyIfAllowed
\* An answer ends.
CHECK_DEADLOCK FALSE
