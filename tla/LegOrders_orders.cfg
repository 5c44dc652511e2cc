SPECIFICATION FairSpec
CONSTANTS
  QuidaxLegs = {"q"}
  StrailsLegs = {"s"}
  ChainLegs = {"c"}
  MaxOrders = 3
  Tries = 2
  Faults = {"lost", "down", "nameless", "unreadable", "store"}
INVARIANTS TypeOK OrdersBounded
PROPERTIES KeepsContract NothingAfterAcceptance PendingResolves
CHECK_DEADLOCK FALSE
