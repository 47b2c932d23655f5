SPECIFICATION Spec
CONSTANTS
  Deployments <- MCDeployments
  MaxAttempts = 2
  MaxLog = 12
INVARIANTS
  OneVerdictPerRun
  AblationSingleVariable
  AuditIsTruthful
PROPERTIES
  RunTerminates
  RefinesContract
CHECK_DEADLOCK FALSE
