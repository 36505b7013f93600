----------------------------- MODULE MCPayments -----------------------------
(* Instances of Payments for TLC: which payments, requests and workers there are. *)
EXTENDS Payments

CONSTANTS pk, nk   \* a payment of a loan or an investment, and one with an unknown reference

For(k, t) == [j \in Key |-> IF j = k THEN t ELSE "none"]

AnyTargets     == {For(pk, t) : t \in Services}
OnlyInvestment == {For(pk, "investment")}

\* Request 1 and 2 bring the same payment, 3 brings another one.
Twice == [r \in Request |-> IF r \in {1, 2} THEN pk ELSE nk]

ByName == [w \in Worker |-> IF w = "loan_worker" THEN "loan" ELSE "investment"]

=============================================================================
