-------------------------- MODULE MCLedgerConsumer --------------------------
(* Postings that balance, that wrap, that do not balance, and on an account that is
   opened late; a payment command between them. *)
EXTENDS LedgerConsumer, TLC

CONSTANTS Cash, Capital,              \* accounts
          Pay, Resolve, Fee, Skewed, Huge  \* postings

Entry(x, s, n) == [account |-> x, side |-> s, amount |-> n]

\* Three debits whose int64 sum wraps to the single credit.
MCLines ==
  (Pay     :> <<Entry(Cash, "debit", 3), Entry(Capital, "credit", 3)>>) @@
  (Resolve :> << >>) @@
  (Fee     :> <<Entry(Cash, "debit", 1), Entry(Cash, "credit", 1)>>) @@
  (Huge    :> <<Entry(Cash, "debit", 7), Entry(Cash, "debit", 7), Entry(Cash, "debit", 4),
                Entry(Capital, "credit", 2)>>) @@
  (Skewed  :> <<Entry(Cash, "debit", 3), Entry(Capital, "credit", 2)>>)

MCCommand == (Pay :> "POST_TRANSACTION") @@ (Resolve :> "RESOLVE_PAYMENT") @@
             (Skewed :> "POST_TRANSACTION")


=============================================================================
