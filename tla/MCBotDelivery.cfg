SPECIFICATION Spec
CONSTANTS
  Notifications = {"dated", "unrendered"}
  Kind <- Named
  Dated = {"dated"}
  MaxAttempts = 3
  MaxFaults = 2
INVARIANTS TypeOK NeverLost
PROPERTIES FinalRecordSilences EverySettles
CHECK_DEADLOCK FALSE
