SPECIFICATION Spec
CONSTANTS
  Notifications = {"dated", "unrendered"}
  Kind <- Named
  Dated = {"dated"}
  MaxAttempts = 3
  MaxFaults = 2
PROPERTY DeliveredIsFinal
CHECK_DEADLOCK FALSE
