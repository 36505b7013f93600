\* A payment sent twice, of a loan or of an investment with two workers, and one with an
\* unknown reference; three faults.
SPECIFICATION FairSpec
CONSTANTS
  pk = pk
  nk = nk
  Key = {pk, nk}
  Targets <- AnyTargets
  Request = {1, 2, 3}
  KeyOf <- Twice
  Worker = {"loan_worker", "investment_worker_a", "investment_worker_b"}
  Service <- ByName
  MaxFaults = 3
INVARIANTS
  TypeOK
  CompletedMeansApplied
  RefusedMeansNotApplied
  AppliedOnce
  OneCommand
  LoanIsCarried
  ClaimedIsCarried
PROPERTIES
  TerminalIsFinal
  ImplementsLifecycle
  LoanSettles
CHECK_DEADLOCK FALSE
