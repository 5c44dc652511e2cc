SPECIFICATION Spec
CONSTANTS
  Opps = {o1, o2}
  Hash = {h1, h2, h3}
  Directions <- OpenRoutes
  MaxFailures = 2
  Faults = {"pending_buy", "pending_recovery", "unrecorded", "rollover", "drop", "unfilled"}
  NoOpp = NoOpp
  NoHash = NoHash
SYMMETRY Sym
INVARIANTS SoldOnce BoughtOnce AbandonedIsEmpty
