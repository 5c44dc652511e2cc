SPECIFICATION MCSpec
CONSTANTS
  Chains = {"base"}
  Wallets = {"base"}
  Seeders = {"boot", "task"}
  Tasks = {"task"}
  Ticks = {0, 1}
  MaxSwaps = 1
  MaxMints = 1
  MaxMoves = 1
  Faults = {"drop", "rpc", "gas", "store", "stop"}
INVARIANTS TypeOK NoLostWakeup LiveMeansCurrent
PROPERTIES NewsIsLookedAt BootstrapEnds
CHECK_DEADLOCK FALSE
