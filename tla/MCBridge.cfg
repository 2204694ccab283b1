SPECIFICATION FairSpec
CONSTANTS
  Requests = {r1, r2, r3}
  Greeting = Greeting
  QueueCap = 2
  ToServer = 1
  ToClient = 5
  MaxCuts = 1
  MaxFails = 1
INVARIANTS TypeOK AnswersMatch
PROPERTIES NoneGivenUp Answered DropReturns
CHECK_DEADLOCK FALSE
