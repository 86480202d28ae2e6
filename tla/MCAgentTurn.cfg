SPECIFICATION Spec
CONSTANTS
  None = None
  MaxTurns = 2
  MaxEdits = 2
  MaxStray = 1
INVARIANTS
  TamperingIsReported
  InnocentNotBlamed
