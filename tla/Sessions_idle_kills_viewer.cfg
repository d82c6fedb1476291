SPECIFICATION Spec
CONSTANTS
  Requests = {r1, r2}
  Streams = {a, b}
  None = None
  MaxRematch = 0
  MayShutDown = FALSE
SYMMETRY SessionSymmetry
PROPERTY IdleTeardownSparesViewers
