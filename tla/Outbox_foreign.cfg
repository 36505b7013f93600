\* Both workers; what exhausts a loan message.
SPECIFICATION Spec
CONSTANTS
  Msg <- TwoMsgs
  Kind <- LoanFirst
  Dispatcher <- Both
  Service <- ByName
  MaxAttempts = 5
  BatchLimit <- Tens
  MaxFaults = 1
INVARIANTS
  UnrefusedLoanIsAlive
