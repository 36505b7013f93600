\* Both workers on one table: a loan message, then an investment message.
SPECIFICATION FairSpec
CONSTANTS
  Msg <- TwoMsgs
  Kind <- LoanFirst
  Dispatcher <- Both
  Service <- ByName
  MaxAttempts = 2
  BatchLimit <- TwoAndOne
  MaxFaults = 1
INVARIANTS
  TypeOK
  PublishedMeansSent
  DuplicateOnlyAfterExpiry
  AttemptsBound
  InvestmentDeadMeansRefused
PROPERTIES
  PublishedIsFinal
  ImplementsDelivery
  EveryMessageSettles
