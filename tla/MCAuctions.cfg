SPECIFICATION MCSpec
CONSTANTS
  A = A
  B = B
  x = x
  y = y
  Auctions = {A, B}
  Lots = {x, y}
  AuctionOf <- AllOfA
  NoAuction = NoAuction
  MaxPresses = 1
  MaxCalls = 2
  MaxTickets = 1
  MaxFaults = 1
SYMMETRY EitherLot
INVARIANTS TypeOK OneAuctionTrades LotsKeepThePhase FrozenLineupStands OneLotInTheFinal
PROPERTIES FrozenLineupIsClosed IsTakingTurns
CHECK_DEADLOCK FALSE
