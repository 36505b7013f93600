----------------------------- MODULE LoanWorker -----------------------------
(***************************************************************************)
(* The loan worker: HandlePaymentEvent and resolveLoan on one loan, called *)
(* by the consumer of the loan queue and by the HTTP handler of the same   *)
(* process.                                                                *)
(*                                                                         *)
(* The loan and its overpayment are read outside the transaction that      *)
(* writes them.  The writes of that transaction are one step: two of them  *)
(* that touch the same row wait for each other, and each stores values     *)
(* computed from what was read before.                                     *)
(***************************************************************************)
EXTENDS Integers

CONSTANTS
  Event,      \* the external ids of the payments of the loan
  Amount,     \* event.Amount
  Principal,  \* the loan's principal_amount, first outstanding in full
  Consumer,   \* the consumers of the loan queue
  Caller,     \* the HTTP calls of /payment
  MaxFaults   \* bound: crashes and lost calls of one behaviour

Actor == Consumer \cup Caller

ASSUME AmountAssumption    == Amount \in [Event -> Int]
ASSUME PrincipalAssumption == Principal \in Nat \ {0}
ASSUME ActorAssumption     == Consumer \cap Caller = {}
ASSUME FaultsAssumption    == MaxFaults \in Nat

VARIABLES
  outstanding,   \* loans.outstanding_amount
  status,        \* loans.status
  overpayments,  \* the external ids with a row in overpayments
  overpaid,      \* the sum of the amounts of those rows
  credited,      \* the sum of the credit entries of the loan's account
  posted,        \* ledger transactions of each event
  outbox,        \* outbox rows written for each event, by command type
  sent,          \* events whose command was published
  waiting,       \* copies of the command in the loan queue
  dead,          \* copies of it in the dead letter queue
  pc,            \* where each actor is in HandlePaymentEvent
  event,         \* the event it works on, if any
  seen,          \* the loan as it read it
  raced,         \* history: whether two payments were ever worked on at once
  faults         \* faults so far

loan   == <<outstanding, status, overpayments, overpaid>>
ledger == <<credited, posted>>
broker == <<sent, waiting, dead>>
actor  == <<pc, event, seen, raced>>
vars   == <<loan, ledger, outbox, broker, actor, faults>>

Init ==
  /\ outstanding  = Principal
  /\ status       = "active"
  /\ overpayments = {}
  /\ overpaid     = 0
  /\ credited     = 0
  /\ posted       = [e \in Event |-> 0]
  /\ outbox       = [c \in {"resolved", "unresolved"} |-> [e \in Event |-> 0]]
  /\ sent         = {}
  /\ waiting      = [e \in Event |-> 0]
  /\ dead         = [e \in Event |-> 0]
  /\ pc           = [a \in Actor |-> "idle"]
  /\ event        = [a \in Actor |-> {}]
  /\ seen         = [a \in Actor |-> [status |-> "active", outstanding |-> Principal]]
  /\ raced        = FALSE
  /\ faults       = 0

Fault == faults < MaxFaults /\ faults' = faults + 1

At(a, e, l) == pc[a] = l /\ event[a] = {e}

Goto(a, l) ==
  /\ pc' = [pc EXCEPT ![a] = l]
  /\ UNCHANGED <<event, raced>>

\* A consumer turns to its next delivery; an HTTP call is over.
Leave(a) ==
  /\ pc'    = [pc    EXCEPT ![a] = IF a \in Consumer THEN "idle" ELSE "ended"]
  /\ event' = [event EXCEPT ![a] = {}]
  /\ UNCHANGED <<seen, raced>>

-----------------------------------------------------------------------------
(* A payment arrives *)

\* The payments service publishes the command of a payment once.
Send(e) ==
  /\ e \notin sent
  /\ sent' = sent \cup {e}
  /\ waiting' = [waiting EXCEPT ![e] = @ + 1]
  /\ UNCHANGED <<loan, ledger, outbox, dead, actor, faults>>

Begin(a, e) ==
  /\ pc[a] = "idle"
  /\ pc'    = [pc    EXCEPT ![a] = "begun"]
  /\ event' = [event EXCEPT ![a] = {e}]
  /\ raced' = (raced \/ \E b \in Actor : event[b] # {})
  /\ UNCHANGED <<seen, loan, ledger, outbox, sent, dead, faults>>

Deliver(a, e) ==
  /\ a \in Consumer
  /\ waiting[e] > 0
  /\ waiting' = [waiting EXCEPT ![e] = @ - 1]
  /\ Begin(a, e)

Call(a, e) ==
  /\ a \in Caller
  /\ Begin(a, e)
  /\ UNCHANGED waiting

-----------------------------------------------------------------------------
(* resolveLoan: the reads *)

\* Mutant: the loan read for an earlier payment is used again.
ReadCached(a, e) ==
  /\ At(a, e, "begun")
  /\ Amount[e] > 0
  /\ IF seen[a].outstanding < Amount[e] THEN Goto(a, "look") ELSE Goto(a, "write")
  /\ UNCHANGED <<seen, loan, ledger, outbox, broker, faults>>

\* GetLoanByReference.  The overpayment is looked up when the loan is paid off or the
\* amount is more than is outstanding.
Read(a, e) ==
  /\ At(a, e, "begun")
  /\ Amount[e] > 0
  /\ seen' = [seen EXCEPT ![a] = [status |-> status, outstanding |-> outstanding]]
  /\ IF status = "paid_off" \/ outstanding < Amount[e] THEN Goto(a, "look") ELSE Goto(a, "write")
  /\ UNCHANGED <<loan, ledger, outbox, broker, faults>>

\* GetOverpaymentByExternalId.  A found one is a refusal of a loan that is paid off,
\* and an error for one that is not.
Look(a, e) ==
  /\ At(a, e, "look")
  /\ IF e \notin overpayments             THEN Goto(a, "write")
     ELSE IF seen[a].status = "paid_off"  THEN Goto(a, "refuse")
     ELSE Goto(a, "failed")
  /\ UNCHANGED <<seen, loan, ledger, outbox, broker, faults>>

\* An amount that is not positive, a reference without loan or account, a lost
\* connection, a cancelled request: an error with nothing committed.
Fail(a, e) ==
  /\ event[a] = {e}
  /\ pc[a] \in {"begun", "look", "write", "refuse"}
  /\ Goto(a, "failed")
  /\ UNCHANGED <<seen, loan, ledger, outbox, broker, faults>>

-----------------------------------------------------------------------------
(* resolveLoan: what the transaction writes *)

Incr(f, e) == [f EXCEPT ![e] = @ + 1]

CreateOutboxMessage(command, e) ==
  outbox' = [outbox EXCEPT ![command] = Incr(@, e)]

\* The ledger transaction and the outbox row of a payment that was taken.
PostAndAnnounce(e) ==
  /\ credited' = credited + Amount[e]
  /\ posted' = Incr(posted, e)
  /\ CreateOutboxMessage("resolved", e)

\* Either the worker learns of the commit, or the connection is lost while it goes through.
Committed(a) ==
  \/ Goto(a, "handled") /\ UNCHANGED faults
  \/ Goto(a, "failed") /\ Fault

\* Mutant: what is outstanding is not compared with the amount.
RepayBelowZero(a, e) ==
  /\ At(a, e, "write")
  /\ seen[a].status # "paid_off"
  /\ outstanding' = seen[a].outstanding - Amount[e]
  /\ PostAndAnnounce(e)
  /\ Committed(a)
  /\ UNCHANGED <<status, overpayments, overpaid, broker, seen>>

\* The outstanding amount becomes what is left of the amount that was read.  A loan
\* paid exactly stays active.
Repay(a, e) ==
  /\ At(a, e, "write")
  /\ seen[a].status # "paid_off"
  /\ seen[a].outstanding >= Amount[e]
  /\ outstanding' = seen[a].outstanding - Amount[e]
  /\ PostAndAnnounce(e)
  /\ Committed(a)
  /\ UNCHANGED <<status, overpayments, overpaid, broker, seen>>

\* Mutant: the external_id is not unique.
InsertAgain(e, amount) ==
  /\ overpayments' = overpayments \cup {e}
  /\ overpaid' = overpaid + amount

\* The unique external_id: a row inserted since it was looked up makes the insert fail.
InsertOverpayment(e, amount) ==
  /\ e \notin overpayments
  /\ overpayments' = overpayments \cup {e}
  /\ overpaid' = overpaid + amount

\* Mutant: the whole amount is recorded as overpayment of the loan it pays off.
PayOffWithAll(a, e) ==
  /\ At(a, e, "write")
  /\ seen[a].status # "paid_off"
  /\ seen[a].outstanding < Amount[e]
  /\ InsertOverpayment(e, Amount[e])
  /\ outstanding' = 0
  /\ status' = "paid_off"
  /\ PostAndAnnounce(e)
  /\ Committed(a)
  /\ UNCHANGED <<broker, seen>>

\* Mutant: the outstanding amount is forgotten.
PayOffOnlyStatus(a, e) ==
  /\ At(a, e, "write")
  /\ seen[a].status # "paid_off"
  /\ seen[a].outstanding < Amount[e]
  /\ InsertOverpayment(e, Amount[e] - seen[a].outstanding)
  /\ status' = "paid_off"
  /\ PostAndAnnounce(e)
  /\ Committed(a)
  /\ UNCHANGED <<outstanding, broker, seen>>

PayOff(a, e) ==
  /\ At(a, e, "write")
  /\ seen[a].status # "paid_off"
  /\ seen[a].outstanding < Amount[e]
  /\ InsertOverpayment(e, Amount[e] - seen[a].outstanding)
  /\ outstanding' = 0
  /\ status' = "paid_off"
  /\ PostAndAnnounce(e)
  /\ Committed(a)
  /\ UNCHANGED <<broker, seen>>

\* A payment of a loan that is paid off is overpayment as a whole.
Overpay(a, e) ==
  /\ At(a, e, "write")
  /\ seen[a].status = "paid_off"
  /\ InsertOverpayment(e, Amount[e])
  /\ PostAndAnnounce(e)
  /\ Committed(a)
  /\ UNCHANGED <<outstanding, status, broker, seen>>

InsertFails(a, e) ==
  /\ At(a, e, "write")
  /\ seen[a].status = "paid_off" \/ seen[a].outstanding < Amount[e]
  /\ e \in overpayments
  /\ Goto(a, "failed")
  /\ UNCHANGED <<seen, loan, ledger, outbox, broker, faults>>

\* Mutant: the amount is posted before the overpayment is seen to be a repeated one.
RefusePosted(a, e) ==
  /\ At(a, e, "refuse")
  /\ credited' = credited + Amount[e]
  /\ posted' = Incr(posted, e)
  /\ CreateOutboxMessage("unresolved", e)
  /\ Committed(a)
  /\ UNCHANGED <<loan, broker, seen>>

\* The refusal of a repeated overpayment leaves a row in the outbox.
Refuse(a, e) ==
  /\ At(a, e, "refuse")
  /\ CreateOutboxMessage("unresolved", e)
  /\ Committed(a)
  /\ UNCHANGED <<loan, ledger, broker, seen>>

-----------------------------------------------------------------------------
(* The delivery is settled *)

\* The consumer acknowledges, the HTTP handler answers 200.
Succeed(a, e) ==
  /\ At(a, e, "handled")
  /\ Leave(a)
  /\ UNCHANGED <<loan, ledger, outbox, broker, faults>>

\* Mutant: the failed delivery goes back to the loan queue.
RejectRequeues(a, e) ==
  /\ At(a, e, "failed")
  /\ waiting' = IF a \in Consumer THEN [waiting EXCEPT ![e] = @ + 1] ELSE waiting
  /\ Leave(a)
  /\ UNCHANGED <<loan, ledger, outbox, sent, dead, faults>>

\* The consumer announces the payment as unresolved and dead-letters the delivery,
\* the HTTP handler answers 400.
Reject(a, e) ==
  /\ At(a, e, "failed")
  /\ dead' = IF a \in Consumer THEN [dead EXCEPT ![e] = @ + 1] ELSE dead
  /\ Leave(a)
  /\ UNCHANGED <<loan, ledger, outbox, sent, waiting, faults>>

\* The worker dies; the broker delivers what the consumer has not settled again.
Crash(a, e) ==
  /\ event[a] = {e}
  /\ Fault
  /\ waiting' = IF a \in Consumer THEN [waiting EXCEPT ![e] = @ + 1] ELSE waiting
  /\ Leave(a)
  /\ UNCHANGED <<loan, ledger, outbox, sent, dead>>

-----------------------------------------------------------------------------

Handle(a) ==
  \E e \in Event :
    \/ Read(a, e) \/ Look(a, e) \/ Fail(a, e)
    \/ Repay(a, e) \/ PayOff(a, e) \/ Overpay(a, e) \/ InsertFails(a, e) \/ Refuse(a, e)
    \/ Succeed(a, e) \/ Reject(a, e)

Next ==
  \/ \E e \in Event : Send(e)
  \/ \E a \in Actor, e \in Event : Deliver(a, e) \/ Call(a, e) \/ Crash(a, e)
  \/ \E a \in Actor : Handle(a)

Spec == Init /\ [][Next]_vars

\* A consumer takes what is in its queue, and what was begun is carried on.
FairSpec ==
  /\ Spec
  /\ \A a \in Actor : WF_vars(Handle(a))
  /\ \A e \in Event : SF_vars(\E a \in Actor : Deliver(a, e))

-----------------------------------------------------------------------------
(* Properties *)

TypeOK ==
  /\ outstanding  \in Nat
  /\ status       \in {"active", "paid_off"}
  /\ overpayments \in SUBSET Event
  /\ overpaid     \in Nat
  /\ credited     \in Nat
  /\ posted       \in [Event -> Nat]
  /\ outbox       \in [{"resolved", "unresolved"} -> [Event -> Nat]]
  /\ sent         \in SUBSET Event
  /\ waiting      \in [Event -> Nat]
  /\ dead         \in [Event -> Nat]
  /\ pc           \in [Actor -> {"idle", "begun", "look", "write", "refuse", "handled", "failed", "ended"}]
  /\ event        \in [Actor -> SUBSET Event]
  /\ seen         \in [Actor -> [status : {"active", "paid_off"}, outstanding : Nat]]
  /\ raced        \in BOOLEAN
  /\ faults       \in 0 .. MaxFaults

Accounted == Principal - outstanding + overpaid

\* However payments interleave, the loan and its overpayments never account for more
\* than was credited in the ledger: a lost update is to the borrower's loss only.
NeverOverstated == Accounted <= credited

\* Every shilling credited in the ledger is taken off the loan or recorded as overpayment.
BooksBalance == Accounted = credited

\* That holds, redelivered payments included, as long as no two were handled at once.
BooksBalanceInTurn == raced \/ BooksBalance

\* One at a time the loan is what the ledger makes it, whatever payments came in what
\* order and how often: what is credited short of the principal is outstanding, what is
\* credited beyond it is overpayment, and it is paid off when there is such.
LoanFollowsLedger ==
  \/ raced
  \/ /\ outstanding = IF credited < Principal THEN Principal - credited ELSE 0
     /\ overpaid    = IF credited > Principal THEN credited - Principal ELSE 0
     /\ status = "paid_off" <=> credited > Principal

\* One at a time: no payment makes the loan grow again.
OutstandingNeverGrows == [][raced' \/ outstanding' <= outstanding]_vars

\* One at a time: what was recorded as overpayment is not posted again, however often
\* it is delivered.
OverpaidIsPostedNoMore ==
  [][raced' \/ \A e \in overpayments : posted'[e] = posted[e]]_vars

TheAccount == INSTANCE LoanAccount WITH overlapped <- raced

\* The reads and the one transaction that writes, redelivered and failing as they may, take
\* payments as the abstract account does.
ImplementsAccount == TheAccount!Spec

\* Every published command comes to an end for good: taken, refused or dead-lettered,
\* with no copy left in the queue and nobody at work on it.
Settled(e) ==
  /\ posted[e] > 0 \/ outbox["unresolved"][e] > 0 \/ dead[e] > 0
  /\ waiting[e] = 0
  /\ \A a \in Actor : event[a] # {e}

EveryCommandSettles == \A e \in Event : e \in sent ~> []Settled(e)

Midway == {"look", "write", "refuse"}

\* What a transaction computes from was once right: the amounts read, with all that was
\* overpaid since, do not exceed all that was credited since.
SeenNeverOverstated ==
  \A a \in Actor :
    pc[a] \in Midway => Principal - seen[a].outstanding + overpaid <= credited

\* Only a positive amount gets as far as the transaction.
AmountsArePositive ==
  \A a \in Actor, e \in Event : pc[a] \in Midway /\ event[a] = {e} => Amount[e] > 0

\* Of an actor that is alone it is still right.
SeenIsCurrent ==
  \A a \in Actor :
    pc[a] \in Midway => seen[a] = [status |-> status, outstanding |-> outstanding]

\* Nothing is outstanding of a loan that is paid off.
PaidOffMeansZero == raced \/ status # "paid_off" \/ outstanding = 0

\* An overpayment paid the loan off, or was of a loan that was.
OverpaidMeansPaidOff ==
  /\ overpayments # {} => status = "paid_off"
  /\ \A a \in Actor : pc[a] \in Midway /\ seen[a].status = "paid_off" => status = "paid_off"

=============================================================================
