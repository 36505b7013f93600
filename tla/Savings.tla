------------------------------ MODULE Savings ------------------------------
(***************************************************************************)
(* What the investment worker promises an investor: a deposit is added to  *)
(* the principal in one step, interest is that of the months that are over *)
(* on the first deposit, and withdrawals, failed runs and repeated ones    *)
(* change nothing of either.  When two deposits of an investment were      *)
(* handled at once it promises less: the principal is no more than was     *)
(* deposited.                                                              *)
(***************************************************************************)
EXTENDS Integers

CONSTANTS
  Investment,  \* the references of the investments
  Event,       \* the external ids of the deposits
  Target,      \* the investment of each
  Amount       \* the amount of each

VARIABLES
  month,      \* the months that have passed
  opened,     \* the investments with a deposit
  initial,    \* the first deposit of each
  current,    \* its principal
  accrued,    \* the interest accrued
  created,    \* the month of the first deposit
  next,       \* the month of the next accrual
  credited,   \* the deposits in the ledger
  overlapped  \* the investments with deposits that were ever handled at once

contract == <<opened, initial, created>>
interest == <<accrued, next>>
money    == <<current, credited>>
vars     == <<month, contract, interest, money, overlapped>>

Zero == [i \in Investment |-> 0]

Init ==
  /\ month = 0
  /\ opened = {}
  /\ initial = Zero /\ current = Zero /\ accrued = Zero
  /\ created = Zero /\ next = Zero
  /\ credited = Zero
  /\ overlapped = {}

Credit(e) == credited' = [credited EXCEPT ![Target[e]] = @ + Amount[e]]

Open(e) ==
  LET i == Target[e] IN
  /\ i \notin opened
  /\ opened'  = opened \cup {i}
  /\ initial' = [initial EXCEPT ![i] = Amount[e]]
  /\ current' = [current EXCEPT ![i] = Amount[e]]
  /\ created' = [created EXCEPT ![i] = month]
  /\ next'    = [next    EXCEPT ![i] = month + 1]
  /\ Credit(e)
  /\ UNCHANGED <<month, accrued, overlapped>>

Deposit(e) ==
  LET i == Target[e] IN
  /\ i \in opened
  /\ Credit(e)
  /\ \/ current' = [current EXCEPT ![i] = @ + Amount[e]]
     \/ /\ i \in overlapped
        /\ \E p \in 0 .. credited'[i] : current' = [current EXCEPT ![i] = p]
  /\ UNCHANGED <<month, contract, interest, overlapped>>

\* 2.5% a month, but for half a cent of rounding.
IsInterest(total, principal, months) ==
  /\ 40 * total <= (principal + 20) * months
  /\ 40 * total >= (principal - 20) * months

Accrue(i) ==
  /\ i \in opened
  /\ next' = [next EXCEPT ![i] = month + 1]
  /\ accrued' = [accrued EXCEPT ![i] = accrued'[i]]
  /\ IsInterest(accrued'[i], initial[i], month - created[i])
  /\ UNCHANGED <<month, contract, money, overlapped>>

MonthPasses ==
  /\ month' = month + 1
  /\ UNCHANGED <<contract, interest, money, overlapped>>

Overlap(i) ==
  /\ overlapped' = overlapped \cup {i}
  /\ UNCHANGED <<month, contract, interest, money>>

Next ==
  \/ \E e \in Event : Open(e) \/ Deposit(e)
  \/ \E i \in Investment : Accrue(i) \/ Overlap(i)
  \/ MonthPasses

Spec == Init /\ [][Next]_vars

=============================================================================
