\* One investment payment, one request, one fault: a redelivery within the 20 seconds.
SPECIFICATION Spec
CONSTANTS
  pk = pk
  nk = nk
  Key = {pk}
  Targets <- OnlyInvestment
  Request = {1}
  KeyOf <- Twice
  Worker = {"investment_worker_a"}
  Service <- ByName
  MaxFaults = 1
PROPERTIES
  ClaimIsExclusive
CHECK_DEADLOCK FALSE
