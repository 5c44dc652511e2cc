SPECIFICATION FairSpec
CONSTANTS
  Ids = {n1, n2, n3}
  Faults = {"store"}
  MaxQueue = 0
  NoId = NoId
INVARIANTS TypeOK OnePosition CountAgrees UnwindHolds
PROPERTIES FundsDeployed
