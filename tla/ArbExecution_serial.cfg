SPECIFICATION Spec
CONSTANTS
  Opps = {o1, o2}
  Hash = {h1, h2, h3}
  Directions <- OpenRoutes
  MaxFailures = 2
  Faults = {"store", "crash", "rollover", "lost_response", "untracked"}
  NoOpp = NoOpp
  NoHash = NoHash
SYMMETRY Sym
INVARIANTS TypeOK OneAtATime CompletedIsFlat
PROPERTIES RowsMoveForward
