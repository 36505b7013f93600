\* A consumer and an HTTP call, one scheduler, three months.
SPECIFICATION FairSpec
CONSTANTS
  Investment = {"inv1", "inv2"}
  Event = {"first", "second", "other"}
  Target <- Targets
  Amount <- Amounts
  Actor = {"consumer", "call"}
  Scheduler = {"scheduler"}
  Withdrawal = {"w1"}
  From <- AllFromFirst
  Demand <- AllOf30
  Account = {"capital", "client"}
  MaxMonth = 3
  MaxTries = 1
  MaxFaults = 1
INVARIANTS
  TypeOK
  PrincipalNeverOverstated
  PrincipalMatchesLedger
  AccrualFollowsCalendar
  AccruedIsAnnounced
PROPERTIES
  ImplementsSavings
  AccrualsCatchUp
CHECK_DEADLOCK FALSE
