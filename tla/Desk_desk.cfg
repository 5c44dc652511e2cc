SPECIFICATION MCSpec
CONSTANTS
  Markets <- MCMarkets
  Curve <- MCCurve
  Need <- MCNeed
  BuyCap <- MCBuyCap
  Purses <- MCPurses
  Top = 9
  SpreadSize = 1
  Tol = 2
  MaxSingle = 6
  Cost = 3
  Amounts = {0, 1}
  MinStable = 1
  MaxMoves = 1
  MaxFaults = 1
  TradeSizes = {1, 2}
  Profits <- MCProfits
  MaxVolume = 3
  MaxImbalance = 2
  MaxLoss = 2
  MaxFailures = 2
  Day = 2
  MaxTime = 5
  Swaps <- MCSwaps
  Window = 1
  Slack = 1
  MaxHead = 3
  MaxClock = 2
  Rpcs = 2
  Sources = {"bybit", "quidax", "uni-base", "assetchain"}
  Quotes <- MCQuotes
  Snapshots <- MCSnaps
  Answers <- MCAnswers
  Rates <- MCRates
  Ranges <- MCRanges
  Now = 4
INVARIANTS
  FiguresInRange
  SearchSound
  RouteIsCovered
  VolumeBounded
  NoDoubleCount
  GapFilled
PROPERTY FiguresCatchUp
CHECK_DEADLOCK FALSE
