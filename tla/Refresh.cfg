\* Two sources, one with validators and one without (file://), that change
\* twice each; providers may fail for ever.
SPECIFICATION FairSpec
CONSTANTS
  N = 2
  NameOf <- OwnNames
  Tagged = {1}
  OnUpdate = TRUE
  Nothing = Nothing
  MaxVersion = 2
INVARIANTS
  TypeOK
  CurrentHasLastGood
  NotModifiedIsTrue
PROPERTIES
  ImplementsSourceCache
  LineupConverges
  GoroutinesStop
