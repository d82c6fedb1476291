SPECIFICATION FairSpec
CONSTANTS
  N = 2
  NameOf <- OwnNames
  Tagged = {1}
  Nothing = Nothing
  MaxVersion = 0
  MaxSignals = 1
  RawConfigs <- Files
INVARIANT GoodbyeIsSent
