SPECIFICATION ExperimentSpec
CONSTANTS
  Null = Null
  Setups <- MCSetups
  Points <- MCPoints
  Reports <- MCReports
  MinGain = 50
CHECK_DEADLOCK FALSE
INVARIANTS
  ReviewedAssetsAreMeasured
  FeedbackIsOfTheLastAttempt
  GainIsComparable
