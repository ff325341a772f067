SPECIFICATION Spec
CONSTANTS
  A = A
  B = B
  x = x
  y = y
  Auctions = {A}
  Lots = {x}
  AuctionOf <- AllOfA
  NoAuction = NoAuction
  MaxPresses = 2
  MaxCalls = 2
  MaxTickets = 1
  MaxFaults = 0
INVARIANT EmptyBreakFinishes
CHECK_DEADLOCK FALSE
