SPECIFICATION AttendedSpec
CONSTANTS
  Opps = {o1}
  Hash = {h1, h2, h3, h4}
  Directions <- WithStrailsBuys
  MaxFailures = 2
  Faults = {"pending_buy", "drop"}
  NoOpp = NoOpp
  NoHash = NoHash
INVARIANTS ExposureHalts ExposureRecorded
PROPERTIES HalfOpenIsClosed FlagReleased
