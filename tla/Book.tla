-------------------------------- MODULE Book --------------------------------
(***************************************************************************)
(* What the ledger promises: a posting is in the books as a whole or not   *)
(* at all, and only a sound posting is, on accounts that exist.            *)
(***************************************************************************)
EXTENDS Naturals

CONSTANTS
  Posting,     \* the transactions that are asked for
  Lines,       \* the entries of each
  Sound(_),    \* what the books take
  AccountsOf(_)

VARIABLES
  accounts,      \* the accounts that exist
  transactions,  \* how often each posting was recorded
  entries        \* how often each of its entries was

Init ==
  /\ transactions = [p \in Posting |-> 0]
  /\ entries = [p \in Posting |-> [i \in DOMAIN Lines[p] |-> 0]]

Open == /\ accounts \subseteq accounts'
        /\ UNCHANGED <<transactions, entries>>

Record(p) ==
  /\ Sound(p)
  /\ AccountsOf(p) \subseteq accounts
  /\ transactions' = [transactions EXCEPT ![p] = @ + 1]
  /\ entries' = [entries EXCEPT ![p] = [i \in DOMAIN Lines[p] |-> entries[p][i] + 1]]
  /\ UNCHANGED accounts

Next == Open \/ \E p \in Posting : Record(p)

Spec == Init /\ [][Next]_<<accounts, transactions, entries>>

=============================================================================
