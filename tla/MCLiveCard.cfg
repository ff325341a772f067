SPECIFICATION CardSpec
CONSTANTS
  a = a
  b = b
  m1 = m1
  m2 = m2
  NoLot = NoLot
  NoMessage = NoMessage
  Messages = {m1, m2}
  Lots = {a, b}
  Course <- TwoLots
  MaxEvents = 2
SYMMETRY EitherMessage
VIEW CardView
INVARIANTS CardTypeOK SettledCardIsTrue SettledOnTheLot RecordFollowsTheWatch
CHECK_DEADLOCK FALSE
