SPECIFICATION Spec
CONSTANTS
  t1 = t1
  t2 = t2
  r1 = r1
  r2 = r2
  o1 = o1
  TaskIds = {t1, t2}
  ReviewIds = {r1, r2}
  Origins = {o1}
  EventIds = {i1, i2, i3, i4, i5, i6, i7}
  Executors = {e1, e2}
  NoState = NoState
  NoReview = NoReview
  ExpectedVersions = {0, 1, 2, 3, 4, 5}
  Commands <- MCCommands
  CommandIds <- MCCommandIds
  MaxTime = 1
  MaxLog = 5
SYMMETRY Symmetric
INVARIANTS
  ProjectionIsReplay
  AtMostOnce
  DecisionMeetsItsReview
PROPERTY
  ImplementsApproval
