\* The window is [1s, 7s) or half a second later; programmes start and stop
\* before it, on its bounds, inside and after it.
SPECIFICATION Spec
CONSTANTS
  Second = 2
  Lookback = 4
  Lookahead = 8
  MaxFillerBlock = 4
  Malformed = Malformed
  Timestamps = {0, 4, 6, 12, 14, 16}
  MaxProgrammes = 3
  Nows = {6, 7}
INVARIANTS
  TypeOK
  GuideCoversWindow
  FillerIsSplitEvenly
  AiringProgrammesAreShown
