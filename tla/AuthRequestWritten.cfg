SPECIFICATION Spec
CONSTANTS
  Statuses <- HttpStatuses
  Known <- MappedErrors
  Deliveries = {"written"}
  Catalog <- AuthApiCatalog
  Paths <- AllPaths
  Uncatalogued <- OtherEndpoints
  Summaries = {"refused", "reset"}
  Window = 3
  SetBacks = 2
INVARIANTS SharedEnvelope
\* An answer ends.
CHECK_DEADLOCK FALSE
