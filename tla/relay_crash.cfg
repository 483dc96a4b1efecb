SPECIFICATION FairSpec
CONSTANTS
  Events = {"e1"}
  Endpoints = {"p1"}
  Pushes = {"h1"}
  Poller = "poll"
  Workers = {"w1"}
  MaxAttempts = 2
  MaxCrashes = 1
  MaxFailures = 0
  NoEvent = NoEvent
  NoDelivery = NoDelivery
PROPERTIES
  ReceivedIsProcessed
CHECK_DEADLOCK FALSE
