SPECIFICATION FairSpec
CONSTANTS
  Events = { e1, e2, e3 }
  Relays = { p, q }
  Limit = 2
  Width = 2
  MaxCrashes = 1
  MaxOutages = 1
PROPERTIES
  HandedOver
  EventuallyDispatched
CHECK_DEADLOCK FALSE
