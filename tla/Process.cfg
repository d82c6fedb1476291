\* Two guides, one with validators, that change once each; every configuration
\* file that is wrong in one place; up to two signals at any moment.
SPECIFICATION FairSpec
CONSTANTS
  N = 2
  NameOf <- OwnNames
  Tagged = {1}
  Nothing = Nothing
  MaxVersion = 1
  MaxSignals = 2
  RawConfigs <- Files
INVARIANTS
  TypeOK
  AcceptedConfigRuns
PROPERTIES
  GuideIsSourceCache
  GuideConverges
  SignalEndsProcess
