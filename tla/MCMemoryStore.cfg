SPECIFICATION Spec
CONSTANTS
  b1 = b1
  b2 = b2
  rw = rw
  fr = fr
  old = old
  x1 = x1
  x2 = x2
  k1 = k1
  k2 = k2
  None = None
  Builds = {b1, b2}
  Evaluations = {rw, fr}
  Batches = {rw, fr, old}
  Cases = {k1, k2}
  Experiences = {x1, x2}
  CaseOf <- MCCaseOf
  Summaries <- MCSummaries
  Selected <- MCSelected
  Mode <- MCMode
  Requested <- MCRequested
  Answers <- MCAnswers
  MaxAdditions = 1
  MaxSelected = 1
  MaxSnapshots = 3
  MaxItems = 2
CHECK_DEADLOCK FALSE
INVARIANTS
  EvidenceIsEarned
  AnswersAreTrue
  AdviceIsPinned
PROPERTIES
  ImplementsChain
