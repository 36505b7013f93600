------------------------- MODULE MCInvestmentWorker -------------------------
(* An instance of InvestmentWorker for TLC. *)
EXTENDS InvestmentWorker, TLC

\* Two deposits of one investment, whose interest has part of a cent, and one of another.
Targets == [e \in Event |-> IF e = "other" THEN "inv2" ELSE "inv1"]
Amounts == [e \in Event |-> CASE e = "first" -> 30 [] e = "second" -> 50 [] e = "other" -> 20]

AllFromFirst == [w \in Withdrawal |-> "inv1"]
AllOf30      == [w \in Withdrawal |-> 30]

=============================================================================
