SPECIFICATION Spec
CONSTANTS
  Ids = {i1, i2}
  Sides = {buy}
  Refs = {r1}
  Syncs = {"manual"}
  Others = {o1}
  Faults = {"unread", "refuse", "store", "slow_load", "unloaded", "restart"}
  NoTarget = NoTarget
  NoRef = NoRef
SYMMETRY Sym
INVARIANTS KnowsItsOrders
