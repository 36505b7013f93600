---------------------------- MODULE LoanAccount ----------------------------
(***************************************************************************)
(* What the loan worker promises of a loan: a payment is taken in one      *)
(* step, the part that is outstanding repays the loan, the rest is         *)
(* overpayment and is recorded once for a payment.  When two payments were *)
(* worked on at once it promises less: no more is taken off the loan or    *)
(* recorded than was credited in the ledger.                               *)
(***************************************************************************)
EXTENDS Integers

CONSTANTS
  Event,     \* the external ids of the payments
  Amount,    \* the amount of each
  Principal  \* what is outstanding at first

VARIABLES
  outstanding,   \* what is still to be paid
  status,        \* whether more than the loan was paid
  overpayments,  \* the payments with an overpayment
  overpaid,      \* the sum of the overpayments
  credited,      \* the sum of the postings
  posted,        \* the postings of each payment
  overlapped     \* whether two payments were ever worked on at once

recorded == <<status, overpayments, overpaid>>
vars     == <<outstanding, recorded, credited, posted, overlapped>>

Init ==
  /\ outstanding = Principal
  /\ status = "active"
  /\ overpayments = {}
  /\ overpaid = 0
  /\ credited = 0
  /\ posted = [e \in Event |-> 0]
  /\ overlapped = FALSE

Credit(e) ==
  /\ Amount[e] > 0
  /\ credited' = credited + Amount[e]
  /\ posted' = [posted EXCEPT ![e] = @ + 1]
  /\ UNCHANGED overlapped

Repay(e) ==
  /\ outstanding >= Amount[e]
  /\ outstanding' = outstanding - Amount[e]
  /\ UNCHANGED recorded

Record(e) ==
  /\ e \notin overpayments
  /\ overpayments' = overpayments \cup {e}
  /\ status' = "paid_off"

Overpay(e) ==
  /\ outstanding < Amount[e]
  /\ Record(e)
  /\ outstanding' = 0
  /\ overpaid' = overpaid + Amount[e] - outstanding

Take(e) == Credit(e) /\ (Repay(e) \/ Overpay(e))

TakeOverlapped(e) ==
  /\ overlapped
  /\ Credit(e)
  /\ UNCHANGED recorded \/ (Record(e) /\ overpaid' > overpaid)
  /\ Principal - outstanding' + overpaid' <= credited'

Overlap ==
  /\ overlapped' = TRUE
  /\ UNCHANGED <<outstanding, recorded, credited, posted>>

Next == Overlap \/ \E e \in Event : Take(e) \/ TakeOverlapped(e)

Spec == Init /\ [][Next]_vars

=============================================================================
