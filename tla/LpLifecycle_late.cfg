SPECIFICATION Spec
CONSTANTS
  Ids = {n1, n2}
  Faults = {"store", "pending", "killed", "rpc"}
  MaxQueue = 2
  NoId = NoId
SYMMETRY Sym
INVARIANTS KnowsAllButUnrecorded StoreAgrees
