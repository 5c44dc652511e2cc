SPECIFICATION Spec
CONSTANTS
  QuidaxLegs = {}
  StrailsLegs = {"s", "again"}
  ChainLegs = {}
  MaxOrders = 2
  Tries = 1
  Faults = {"nameless"}
INVARIANTS ReferenceIsOwn
CHECK_DEADLOCK FALSE
