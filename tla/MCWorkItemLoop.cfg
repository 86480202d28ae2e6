SPECIFICATION Spec
CONSTANTS
  base = base
  one = one
  two = two
  old = old
  l1 = l1
  l2 = l2
  i1 = i1
  i2 = i2
  i3 = i3
  None = None
  Conditions = {"N", "M"}
  Contents = {base, one, two}
  Baseline = base
  Locations = {old, l1, l2}
  Has <- MCHas
  Executions <- MCExecutions
  ItemIds = {i1, i2, i3}
  Ledgers <- MCLedgers
  MaxTurns = 3
  MaxItems = 2
  Spoilable <- MCSpoilable
  MaxSpoiled = 1
CHECK_DEADLOCK FALSE
INVARIANTS
  ResolvedIsObserved
  ItemsAreKept
  ResultIsOfTheLastTurn
  ToldByTheHarness
