CONSTANTS
  Refresh = 6
  Life = 8
  MaxKills = 3
  MaxFaults = 3
SPECIFICATION FairSpec
INVARIANTS TypeOK OneFailureEach
PROPERTY FetchesAgain
