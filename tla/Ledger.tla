------------------------------- MODULE Ledger -------------------------------
(***************************************************************************)
(* The ledger service: PostTransaction with a transaction of its own, and  *)
(* CreateAccount, as the HTTP handlers of the ledger API call them.  The   *)
(* ledger consumer's calls are added by the module LedgerConsumer.         *)
(*                                                                         *)
(* The rows an open transaction has inserted are seen by nobody else, so   *)
(* they are kept as a number per actor until the commit.  Ids are fresh    *)
(* UUIDs, so rows are counted.                                             *)
(***************************************************************************)
EXTENDS Integers, Sequences, FiniteSets, Functions

CONSTANTS
  Posting,   \* the transactions that are asked for
  Lines,     \* the entries of each, in their order
  Known,     \* the postings whose type the CHECK of the table transactions allows
  Account,   \* the account ids
  Opened,    \* those that exist at the start
  Actor,     \* the goroutines that call PostTransaction
  Caller,    \* those of them that serve an HTTP request
  Asked,     \* the postings that come in HTTP requests
  Word,      \* an int64 is in -Word .. Word - 1 (2^63 in the code)
  MaxFaults  \* bound: crashes and lost calls of one behaviour

Line == [account : Account, side : {"debit", "credit", "other"}, amount : Int]

ASSUME LinesAssumption  == /\ \A p \in Posting : Lines[p] \in Seq(Line)
                           /\ Opened \subseteq Account
ASSUME ActorAssumption  == IsFiniteSet(Actor) /\ Caller \subseteq Actor /\ Asked \subseteq Posting
ASSUME WordAssumption   == Word \in Nat \ {0}
ASSUME FaultsAssumption == MaxFaults \in Nat

VARIABLES
  accounts,      \* the accounts that exist
  transactions,  \* committed rows of each posting in transactions
  entries,       \* committed rows of each of its lines in entries
  pc,            \* where each actor is
  task,          \* the posting it works on, if any
  written,       \* the entries its open transaction has inserted
  told,          \* history: successes of each posting that were acknowledged
  doubted,       \* history: commits of it that nobody was told of
  faults         \* faults so far

books  == <<accounts, transactions, entries>>
work   == <<pc, task, written>>
record == <<told, doubted>>
ledgerVars == <<books, work, record, faults>>

LedgerInit ==
  /\ accounts     = Opened
  /\ transactions = [p \in Posting |-> 0]
  /\ entries      = [p \in Posting |-> [i \in DOMAIN Lines[p] |-> 0]]
  /\ pc           = [a \in Actor |-> "idle"]
  /\ task         = [a \in Actor |-> {}]
  /\ written      = [a \in Actor |-> 0]
  /\ told         = [p \in Posting |-> 0]
  /\ doubted      = [p \in Posting |-> 0]
  /\ faults       = 0

Fault == faults < MaxFaults /\ faults' = faults + 1

At(a, p, l) == pc[a] = l /\ task[a] = {p}

\* The next step of the same actor; a transaction that is left is rolled back.
Goto(a, l) ==
  /\ pc'      = [pc      EXCEPT ![a] = l]
  /\ written' = [written EXCEPT ![a] = 0]
  /\ UNCHANGED task

\* The actor is done with its posting.
Leave(a, l) ==
  /\ pc'      = [pc      EXCEPT ![a] = l]
  /\ task'    = [task    EXCEPT ![a] = {}]
  /\ written' = [written EXCEPT ![a] = 0]

Incr(f, p) == [f EXCEPT ![p] = @ + 1]

-----------------------------------------------------------------------------
(* PostTransaction *)

AccountsOf(p) == {Lines[p][i].account : i \in DOMAIN Lines[p]}

OfSide(p, side) == {i \in DOMAIN Lines[p] : Lines[p][i].side = side}

Total(p, side) == SumFunctionOnSet([i \in DOMAIN Lines[p] |-> Lines[p][i].amount], OfSide(p, side))

\* A sum of int64.
Wrap(n) == ((n + Word) % (2 * Word)) - Word

\* Mutant: the totals are not compared.
ValidLines(p) ==
  /\ Len(Lines[p]) > 0
  /\ \A i \in DOMAIN Lines[p] : Lines[p][i].side \in {"debit", "credit"} /\ Lines[p][i].amount > 0

Valid(p) ==
  /\ Len(Lines[p]) > 0
  /\ \A i \in DOMAIN Lines[p] : Lines[p][i].side \in {"debit", "credit"} /\ Lines[p][i].amount > 0
  /\ Wrap(Total(p, "debit")) = Wrap(Total(p, "credit"))

\* Nothing is shared before the first INSERT, which the CHECK of the type may refuse.
CreateTransaction(a, p) ==
  /\ At(a, p, "begun")
  /\ Goto(a, IF Valid(p) /\ p \in Known THEN "inserted" ELSE "failed")
  /\ UNCHANGED <<books, record, faults>>

AccountsExist(p) == AccountsOf(p) \subseteq accounts

\* The accounts are read one by one, on another connection.  None is ever deleted, so
\* the last read decides.
VerifyAccounts(a, p) ==
  /\ At(a, p, "inserted")
  /\ Goto(a, IF AccountsExist(p) THEN "writing" ELSE "failed")
  /\ UNCHANGED <<books, record, faults>>

CreateEntry(a, p) ==
  /\ At(a, p, "writing")
  /\ written[a] < Len(Lines[p])
  /\ written' = [written EXCEPT ![a] = @ + 1]
  /\ UNCHANGED <<books, pc, task, record, faults>>

\* What becomes visible with the commit: the transaction and the entries inserted so far.
Publish(a, p) ==
  /\ transactions' = Incr(transactions, p)
  /\ entries' = [entries EXCEPT ![p] =
                   [i \in DOMAIN Lines[p] |-> entries[p][i] + (IF i <= written[a] THEN 1 ELSE 0)]]
  /\ UNCHANGED accounts

\* Mutant: the last entry is left out.
CommitEarly(a, p) ==
  /\ At(a, p, "writing")
  /\ written[a] + 1 = Len(Lines[p])
  /\ Publish(a, p)
  /\ Goto(a, "posted")
  /\ UNCHANGED <<record, faults>>

Commit(a, p) ==
  /\ At(a, p, "writing")
  /\ written[a] = Len(Lines[p])
  /\ Publish(a, p)
  /\ Goto(a, "posted")
  /\ UNCHANGED <<record, faults>>

\* The connection is lost in a commit that went through.
CommitUnknown(a, p) ==
  /\ At(a, p, "writing")
  /\ written[a] = Len(Lines[p])
  /\ Fault
  /\ Publish(a, p)
  /\ Goto(a, "failed")
  /\ doubted' = Incr(doubted, p)
  /\ UNCHANGED told

\* Mutant: an error of a statement is logged and the call goes on as if it had succeeded.
FailIgnored(a, p) ==
  /\ task[a] = {p}
  /\ pc[a] \in {"begun", "inserted", "writing"}
  /\ Goto(a, "posted")
  /\ UNCHANGED <<books, record, faults>>

\* Any statement, or the commit, may fail; the deferred Rollback undoes the rest.
Fail(a, p) ==
  /\ task[a] = {p}
  /\ pc[a] \in {"begun", "inserted", "writing"}
  /\ Goto(a, "failed")
  /\ UNCHANGED <<books, record, faults>>

Post(a, p) ==
  \/ CreateTransaction(a, p) \/ VerifyAccounts(a, p)
  \/ CreateEntry(a, p) \/ Commit(a, p) \/ CommitUnknown(a, p) \/ Fail(a, p)

-----------------------------------------------------------------------------
(* The ledger API *)

CreateAccount(x) ==
  /\ x \notin accounts
  /\ accounts' = accounts \cup {x}
  /\ UNCHANGED <<transactions, entries, work, record, faults>>

Request(a, p) ==
  /\ a \in Caller
  /\ pc[a] = "idle"
  /\ pc'   = [pc   EXCEPT ![a] = "begun"]
  /\ task' = [task EXCEPT ![a] = {p}]
  /\ UNCHANGED <<books, written, record, faults>>

\* 201 or 500.
Answer(a, p) ==
  /\ a \in Caller
  /\ \/ At(a, p, "posted") /\ told' = Incr(told, p)
     \/ At(a, p, "failed") /\ UNCHANGED told
  /\ Leave(a, "answered")
  /\ UNCHANGED <<books, doubted, faults>>

\* A commit whose success is not passed on.
Forget(a, p) ==
  /\ doubted' = IF pc[a] = "posted" THEN Incr(doubted, p) ELSE doubted
  /\ UNCHANGED told

\* The ledger API dies with the request in hand.
Abort(a, p) ==
  /\ a \in Caller
  /\ task[a] = {p}
  /\ Fault
  /\ Leave(a, "answered")
  /\ Forget(a, p)
  /\ UNCHANGED books

Api ==
  \/ \E x \in Account : CreateAccount(x)
  \/ \E a \in Caller, p \in Asked : Request(a, p) \/ Post(a, p) \/ Answer(a, p) \/ Abort(a, p)

-----------------------------------------------------------------------------
(* Properties *)

\* Every line of a posting is in the books as often as its transaction.
WholeTransactions ==
  \A p \in Posting : \A i \in DOMAIN Lines[p] : entries[p][i] = transactions[p]

\* The entries of some postings, over all accounts.
Amount(p, side) ==
  SumFunctionOnSet([i \in DOMAIN Lines[p] |-> Lines[p][i].amount * entries[p][i]], OfSide(p, side))

Booked(side, P) == SumFunction([p \in P |-> Amount(p, side)])

\* The postings whose totals are int64.
Fitting == {p \in Posting : \A side \in {"debit", "credit"} : Total(p, side) < Word}

\* Double entry: over all accounts, debits equal credits, whatever call failed at
\* whatever statement.  It is asked of the postings whose totals do not wrap.
DebitsEqualCredits == Booked("debit", Fitting) = Booked("credit", Fitting)

\* README.md:40: "Double-entry bookkeeping (debits must equal credits)".  Asked of every
\* posting.
DebitsMustEqualCredits == Booked("debit", Posting) = Booked("credit", Posting)

\* What a caller or the broker was told is what is in the books: the transactions of a
\* posting are the acknowledged successes, those about to be acknowledged, and the
\* commits that a fault hid.
Unanswered(p) == {a \in Actor : At(a, p, "posted")}

BooksMatchAnswers ==
  \A p \in Posting : transactions[p] = told[p] + doubted[p] + Cardinality(Unanswered(p))

TheBook == INSTANCE Book WITH Sound <- Valid

\* The calls, statement by statement and with their failures, post whole transactions.
ImplementsBook == TheBook!Spec

=============================================================================
