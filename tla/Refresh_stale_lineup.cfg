SPECIFICATION Spec
CONSTANTS
  N = 2
  NameOf <- OwnNames
  Tagged = {1}
  OnUpdate = TRUE
  Nothing = Nothing
  MaxVersion = 1
INVARIANTS
  LineupIsLatest
