CONSTANTS
  Processes <- TwoProcesses
  Seeds <- SeedsOf
  Plan <- PlanOf
  StoredVersions <- NoDatabaseOrOld
  Prefixes <- Typed
  MaxRounds <- RoundsOf
SPECIFICATION Spec
INVARIANTS
  StoredWorkflowIsOneImport
  RecordIsExecution
  FinishedViewIsFinal
PROPERTY ImplementsRunRecord
CHECK_DEADLOCK FALSE
