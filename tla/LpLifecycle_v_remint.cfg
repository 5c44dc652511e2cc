SPECIFICATION FairSpec
CONSTANTS
  Ids = {n1, n2}
  Faults = {}
  MaxQueue = 0
  NoId = NoId
PROPERTIES RestartRemints
