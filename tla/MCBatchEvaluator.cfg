SPECIFICATION Spec
CONSTANTS
  None = None
  NoCategory = NoCategory
  NoPass = NoPass
  CaseCount = 2
  CaseCategories = {"BLANK_GENERATION", "PROMPTED_FUNCTIONAL_REPAIR"}
  Profiles <- MCProfiles
  MaxPass = 2
INVARIANTS
  EveryCaseCounted
  ProceedIsEarned
