\* The consumer and HTTP calls, one at a time or at once, with a crash or a lost commit.
SPECIFICATION FairSpec
CONSTANTS
  Event = {"part", "rest", "more"}
  Amount <- SomeAmounts
  Principal = 10
  Consumer = {"consumer"}
  Caller = {"call1"}
  MaxFaults = 1
INVARIANTS
  TypeOK
  NeverOverstated
  BooksBalanceInTurn
  LoanFollowsLedger
PROPERTIES
  OutstandingNeverGrows
  OverpaidIsPostedNoMore
  ImplementsAccount
  EveryCommandSettles
CHECK_DEADLOCK FALSE
