\* Three handlers, two logos that change once each.
SPECIFICATION FairSpec
CONSTANTS
  Handlers = {h1, h2, h3}
  WithLogo = {1, 2}
  None = None
  Broken = Broken
  MaxVersion = 1
INVARIANTS
  OnlyLogosAreServed
PROPERTIES
  FetchingEnds
