\* One deposit and one withdrawal, which becomes eligible.
SPECIFICATION FairSpec
CONSTANTS
  Investment = {"inv1"}
  Event = {"first"}
  Target <- Targets
  Amount <- Amounts
  Actor = {"consumer"}
  Scheduler = {"scheduler"}
  Withdrawal = {"w1"}
  From <- AllFromFirst
  Demand <- AllOf30
  Account = {"capital", "client"}
  MaxMonth = 1
  MaxTries = 1
  MaxFaults = 0
PROPERTIES
  EligibleIsProcessed
CHECK_DEADLOCK FALSE
