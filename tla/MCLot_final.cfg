SPECIFICATION Spec
CONSTANTS
  Participants = {p1, p2}
  NoOne = NoOne
  MoneyMax = 100
  Configs <- TwoTiers
  StartingPrices = {1}
  Deadlines = {2}
  OpeningWindows <- Announced
  LaunchedWindows = {}
  PeriodWindows = {}
  BidAmounts = {1, 3}
  LimitAmounts = {2, 5, 6}
  Asks = {4}
  MaxSequence = 10
  MaxTime = 2
SYMMETRY Symmetry
INVARIANTS TypeOK ProxiesSettled
PROPERTIES ProxyBidsWithinLimits DeadlineFreezesTheLineup HeldLimitsDecideTheReturn LiveBidsOnTheGrid OneAnswerSettles IsAnAscendingSale
CHECK_DEADLOCK FALSE
