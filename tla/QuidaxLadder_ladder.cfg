SPECIFICATION FairSpec
CONSTANTS
  Ids = {i1, i2, i3}
  Sides = {buy, sell}
  Refs = {r1}
  Syncs = {"sync"}
  Others = {}
  Faults = {"lag", "reject", "missing", "drift", "lost"}
  NoTarget = NoTarget
  NoRef = NoRef
INVARIANTS KnowsItsOrders NoStacking
PROPERTIES HalfLadderReplaced FinishedIsForgotten
