SPECIFICATION FairSpec
CONSTANTS
  N = 3
  Nobody = Nobody
CHECK_DEADLOCK FALSE
INVARIANTS
  OneWinner
  OverrunOnlyAfterChoice
PROPERTIES
  EveryoneReturns
  OpenedConnects
