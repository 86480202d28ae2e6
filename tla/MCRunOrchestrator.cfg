SPECIFICATION Spec
CONSTANTS
  None = None
  Contents <- MCContents
  SourceStatus <- MCSourceStatus
  Versions = {v1, v2}
  Configs <- MCConfigs
  MaxAgentTurnAttempt = 4
  MaxDrifts = 1
INVARIANTS
  IncompleteOnlyOnFault
  FeedbackIsCurrent
  BudgetRespected
  PassIsConfirmed
  SealedEvidenceComplete
