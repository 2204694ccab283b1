SPECIFICATION FairSpec
CONSTANTS
  Requests = {r1, r2, r3}
  Greeting = Greeting
  QueueCap = 2
  ToServer = 1
  ToClient = 1
  MaxCuts = 0
  MaxFails = 0
PROPERTIES DropReturns
CHECK_DEADLOCK FALSE
