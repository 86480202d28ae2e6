SPECIFICATION SupervisorSpec
CONSTANTS
  Unanswered = Unanswered
  Supervisors <- AllSupervisors
CHECK_DEADLOCK FALSE
INVARIANTS
  HonestAnswer
  GroupGone
PROPERTY
  AlwaysAnswered
