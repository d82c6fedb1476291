SPECIFICATION Spec
CONSTANTS
  Requests = {r1, r2}
  Streams = {a, b}
  None = None
  MaxRematch = 1
  MayShutDown = FALSE
SYMMETRY SessionSymmetry
PROPERTY ReplacedOnlyIfRematched
