SPECIFICATION JointSpec
CONSTANTS
  Intruder = i
  Participants = {a, b, i}
  NoOne = NoOne
  MoneyMax = 100
  Configs <- TwoTiers
  StartingPrices = {1}
  Deadlines <- Untimed
  OpeningWindows <- NoWindows
  LaunchedWindows <- LaunchedWindow
  PeriodWindows <- PeriodWindow
  BidAmounts = {1, 3}
  LimitAmounts = {4, 6}
  Asks = {}
  MaxSequence = 9
  MaxTime = 2
SYMMETRY Symmetry
PROPERTY RemovalUndoesTheIntruder
CHECK_DEADLOCK FALSE
