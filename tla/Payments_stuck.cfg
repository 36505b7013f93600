\* One investment payment, one request, no fault: the delivery that comes too early.
SPECIFICATION Spec
CONSTANTS
  pk = pk
  nk = nk
  Key = {pk}
  Targets <- OnlyInvestment
  Request = {1}
  KeyOf <- Twice
  Worker = {"investment_worker_a"}
  Service <- ByName
  MaxFaults = 0
INVARIANTS
  InvestmentIsCarried
CHECK_DEADLOCK FALSE
