SPECIFICATION Spec
CONSTANTS
  Participants = {p1, p2, p3}
  NoOne = NoOne
  MoneyMax = 100
  Configs <- OneStep
  StartingPrices = {2}
  Deadlines = {3}
  OpeningWindows <- NoWindows
  LaunchedWindows <- Launched
  PeriodWindows <- HappyHours
  BidAmounts = {1, 2, 4}
  LimitAmounts = {2, 3, 4}
  Asks = {}
  MaxSequence = 9
  MaxTime = 2
SYMMETRY Symmetry
INVARIANTS RemovedStayOut KeptInputsKeepALeader HistoryKnowsTheWindows
PROPERTIES PriceNeverFalls ExtensionsAreEarned BegunWindowsStand
CHECK_DEADLOCK FALSE
