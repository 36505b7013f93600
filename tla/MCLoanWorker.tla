---------------------------- MODULE MCLoanWorker ----------------------------
(* Small instances of LoanWorker for TLC. *)
EXTENDS LoanWorker, TLC

\* A part of the loan, the exact rest, more than there is, and an amount that is refused.
Amounts == [part |-> 4, rest |-> 6, more |-> 11, zero |-> 0]

SomeAmounts == [e \in Event |-> Amounts[e]]

=============================================================================
