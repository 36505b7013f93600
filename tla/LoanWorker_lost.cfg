\* The consumer and an HTTP call at once.
SPECIFICATION Spec
CONSTANTS
  Event = {"part", "rest"}
  Amount <- SomeAmounts
  Principal = 10
  Consumer = {"consumer"}
  Caller = {"call1"}
  MaxFaults = 0
INVARIANTS
  BooksBalance
CHECK_DEADLOCK FALSE
