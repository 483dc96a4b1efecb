SPECIFICATION FairSpec
CONSTANTS
  Events = {"e1"}
  Endpoints = {"p1"}
  Pushes = {"h1", "h2"}
  Poller = "poll"
  Workers = {"w1", "w2"}
  MaxAttempts = 2
  MaxCrashes = 1
  MaxFailures = 1
  NoEvent = NoEvent
  NoDelivery = NoDelivery
INVARIANTS
  TypeOK
  ActorsKeepApart
  NothingLostNothingInvented
PROPERTIES
  DeliveredIsFinal
  ReceivedIsProcessedUnlessStranded
CHECK_DEADLOCK FALSE
