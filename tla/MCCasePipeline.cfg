SPECIFICATION Spec
CONSTANTS
  b0 = b0
  evaluate = evaluate
  reanalyze = reanalyze
  Backend <- MCBackend
  None = None
  Current = current
  Earlier = {b0}
  Before <- MCBefore
  Evaluation = evaluate
  Reanalyses = {reanalyze}
  NCases = 2
  Preflights <- MCPreflights
  MaxAttempts = 2
  MaxIterations = 1
  InvalidStatuses = {"OUTPUT_INVALID"}
CHECK_DEADLOCK FALSE
INVARIANTS
  VerdictIsOfTheCandidate
  ExperienceIsEarned
  SealedBatchIsTrue
  ConclusionsAreGrounded
PROPERTIES
  JournalNeverLoses
