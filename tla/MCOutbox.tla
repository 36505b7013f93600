------------------------------ MODULE MCOutbox ------------------------------
(* Instances of Outbox for TLC: which dispatchers run and what they find. *)
EXTENDS Outbox

TwoMsgs == 1 .. 2

LoanFirst == [m \in Msg |-> IF m = 1 THEN "loan" ELSE "investment"]

Both == {"loan_dispatcher", "investment_dispatcher"}

ByName == [d \in Dispatcher |-> IF d = "loan_dispatcher" THEN "loan" ELSE "investment"]

\* One dispatcher takes both messages, the backlog is more than the other takes.
TwoAndOne == [d \in Dispatcher |-> IF d = "loan_dispatcher" THEN 1 ELSE 2]
Tens      == [d \in Dispatcher |-> 10]

=============================================================================
