SPECIFICATION PublicationSpec
CONSTANTS
  c1 = c1
  c2 = c2
  n1 = n1
  n2 = n2
  n3 = n3
  Nothing = Nothing
  Files = Files
  Empty = Empty
  Calls = {c1, c2}
  Names = {n1, n2, n3}
  Candidates <- MCCandidates
  MaxCollisions = 1
  Contents = {a, b}
INVARIANTS
  PublishedIsWhole
  SuccessIsDefinitive
PROPERTY
  EveryCallEnds
