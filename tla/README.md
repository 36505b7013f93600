# Verification of the Ufanisi ledger

TLA+ models of the programs of this repository, the TLC runs that check them on
small instances, and TLAPS proofs of the properties that matter most, for every
value of the constants. Paths below are relative to the repository (`src/`).

The models are translated from the code. Where a comment or a document of the
repository says something else, the run that shows the difference is one that
ends with a counterexample; these are listed under *What does not hold*.

To run a check, in this directory:

    tlc -workers 2 -config Payments_run.cfg MCPayments
    tlapm PaymentsProofs.tla

`PROJECT.json` lists the runs, the lines of code each definition stands for, the
hazards of the code, the changes of the code each property was seen to detect,
and the theorems.

## The system

Five programs share one PostgreSQL database and one RabbitMQ broker.

    client ──HTTP──> payments service ──payment.loan──────> loan worker
                        ^   ^       └──payment.investment─> investment worker
                        |   |                                   |      |
                        |   └── payment.resolved  <── outbox <──┘      └── daily scheduler
                        └────── payment.unresolved <── outbox
    client ──HTTP──> ledger API (accounts, transactions, withdrawals, deposits)
    payment.loan ──> ledger consumer (post_transaction commands)

| Component | State | Operations | Interacts through |
|---|---|---|---|
| Payments service (`cmd/payments`) | `payments`, `payment_references` | `HandlePayment`, consumers of the resolved and the unresolved queue | HTTP, all four queues |
| Loan worker (`cmd/ingestion/loan`, `internal/ingestion/loan`) | `loans`, `overpayments` | `HandlePaymentEvent`, `resolveLoan` | queue `payment.loan` (which the ledger consumer reads too), HTTP `/payment`, ledger, outbox |
| Investment worker (`cmd/ingestion/investment`, `internal/ingestion/investment`) | `investments`, `withdrawals_payable` | `HandlePaymentEvent`, `resolveInvestment`, `RequestWithdrawal`, `ProcessEligibleWithdrawals`, `ProcessDueAccruals` | queue `payment.investment`, HTTP, a daily ticker, ledger, outbox |
| Outbox (`internal/repository/outbox.go`, both dispatchers) | `outbox_messages` | insert, claim, publish, mark, release of stale locks, purge | written by both workers, polled by both dispatchers |
| Ledger service (`internal/domain/ledger.go`) | `transactions`, `entries`, `accounts`, `clients` | `PostTransaction`, `Transfer`, `CreateAccount`, balances | called by all of the above, within their transactions |
| Ledger API (`cmd/ledger`, `internal/transport`) | none of its own | routes to the ledger service and the investment worker | HTTP |
| Ledger consumer (`cmd/ledger-consumer`) | none of its own | `processMessage`, `handleRetry` | queue `payment.loan` and its dead letter queue |
| Broker set-up and configuration (`internal/rabbitmq`, `config.yaml`) | queues with dead letter queues | declared once | every program |

### What is hard in it

- **Concurrency.** A worker takes payments from its queue and over HTTP at the
  same time, and both workers may run more than once. Loans and investments are
  read outside the transaction that writes them, and written back as absolute
  amounts. Two dispatchers poll one outbox table and do not ask whose message
  they claim. Two requests may bring one external id.
- **Order.** `HandlePayment` publishes the command *before* the row becomes
  `resolving` (`cmd/payments/validatePayments.go:120`), so a worker and even a
  result may be faster than the row. Results wait in their queue for the row. The ledger consumer acknowledges after it
  posted, and copies a message to the dead letter queue before it rejects it.
- **One queue, two readers.** The ledger consumer and the loan worker take their
  messages from the same queue, whoever they are meant for.
- **Failure.** A commit may go through and be reported as failed. A worker may
  die with a delivery in hand, a dispatcher between publishing and marking. A
  refusal may be recorded and its transaction fail. Deliveries are repeated.
- **Time.** An outbox lock expires after five minutes though its holder may only
  be slow. A claim of a payment counts as old after twenty seconds. Accruals are
  monthly, and the scheduler may have been down for months.

### What makes each component correct

- *Outbox*: a row that says published was published; a message is sent once
  unless a lock expired, and never before its transaction is committed; every
  message comes to an end; nothing but a refusal of the broker uses up its attempts.
- *Payment*: a completed payment was posted, a refused one was not; it is posted
  once; there is one command per payment; a closed row is never reopened; a
  resolving payment is carried by something and closed in the end.
- *Loan*: a payment is taken in one step; what is outstanding, overpaid and paid
  off is what the credits in the ledger make it; an overpayment is recorded once;
  every command is settled.
- *Ledger*: a posting is in the books as a whole or not at all; debits equal
  credits; the books hold what callers were told, and no more than that but for
  commits that a fault hid.
- *Ledger consumer*: no command is lost over crashes and closed channels; a command
  is posted once or dead-lettered, not both; what keeps failing is dead-lettered,
  and the queue drains.
- *Investment*: the principal is what was deposited in the ledger; the interest
  is that of the months that passed, none twice and none left out; what is
  announced is what was accrued; a due accrual is made; an eligible withdrawal is
  paid.

## The modules

| Module | Models | Checked by | Proved in |
|---|---|---|---|
| `Delivery` | abstract: what the outbox promises of a message | as a property of `Outbox` | `OutboxProofs` |
| `Outbox` | the outbox table and both dispatchers | `MCOutbox`, two runs | `OutboxProofs` |
| `PaymentLifecycle` | abstract: what the `payments` table promises | as a property of `Payments` | `PaymentsProofs` |
| `Payments` | a payment's way through all programs | `MCPayments`, three runs | `PaymentsProofs` |
| `LoanAccount` | abstract: what the loan worker promises of a loan | as a property of `LoanWorker` | `LoanWorkerProofs` |
| `LoanWorker` | what payments do to one loan | `MCLoanWorker`, two runs | `LoanWorkerProofs` |
| `Savings` | abstract: what the investment worker promises an investor | as a property of `InvestmentWorker` | `InvestmentWorkerProofs` |
| `InvestmentWorker` | deposits, withdrawals and accruals | `MCInvestmentWorker`, two runs | `InvestmentWorkerProofs` |
| `Book` | abstract: what the ledger promises | as a property of `Ledger` | `LedgerProofs` |
| `Ledger` | `PostTransaction`, `CreateAccount` and the ledger API's requests | with the next | `LedgerProofs` |
| `LedgerConsumer` | the ledger consumer, composed with `Ledger` | `MCLedgerConsumer`, three runs | `LedgerProofs` |

`SumProofs` has the lemmas about sums over finite sets that `LedgerProofs` needs; it
models nothing.

The modules are cut where the programs talk to each other through something
that is a model of its own. `LedgerConsumer` composes two programs: the API and the
consumer call the same ledger service on the same books, and the loan worker takes
messages from the consumer's queue. `Payments` composes the payments service with
both workers and the dispatchers; it treats what a worker does to a loan or an
investment as a choice between posting and refusing, which `LoanWorker` and
`InvestmentWorker` spell out, and an outbox row as sent at least once or given up,
which is what `Delivery` promises and `Outbox` keeps. That these last parts fit is an argument made here and not a
check: one row of `payments` is many loans' business, and a refinement mapping
would have to invent the history that the other module leaves out.

### Outbox

A message is a natural number, its place in the order of `created_at`. Its row
is `status[m]` (`"absent"` before the insert, `"purged"` after the delete) and
`attempts[m]`; `stale` is the set of rows whose `locked_at` is over five minutes
old. `locked_by` is written and never read, so it is not in the model.

Each statement of `outbox_messages.sql` is an operator of its name
(`ClaimPendingMessages`, `MarkMessageAsPublished`, `MarkMessageAsFailed`,
`ReleaseStaleLocks`), and each database call or publish of `DispatchOnce` is an
action of its own, so that anything may come in between: `BeginDispatch` releases
the stale locks, `Claim` takes a batch, `Publish`/`PublishRefused` and
`MarkPublished` treat one message of it. The dispatchers differ in what they do
with a message of the other worker: the loan dispatcher leaves it locked
(`SkipForeign`), the investment dispatcher marks it as failed (`FailForeign`).
`Crash`, `MarkPublishedLost` and `MarkFailedLost` are the faults. Which locks
have become five minutes old is a choice of its own for each (`Expire`): rows of
one claim, locked at the same time, may expire one after the other in the model,
which is more than the database can do and loses nothing.

`Delivery` is what the two workers get for a row they insert: it goes to the broker
after the insert, counts as published after it went, and goes again, or comes back
from published, only when a lock on it was taken for dead. Claims, batches, attempts
and the processes are not in it. `Outbox!ImplementsDelivery` is its specification with
`state <- PhaseOf`, which calls a row queued whether it is pending, being processed
or failed. A repeated publish is one that `Delivery` allows only after an expired lock,
so the mapping fails if a second dispatcher can get hold of a live claim.

### PaymentLifecycle and Payments

What a payment is for (`target`) is chosen in the initial state and never changes,
so one run has the payment of a loan and that of an investment.

`PaymentLifecycle` is the contract of the table: none, received, resolving, then
completed, unresolved or failed for good, and completed only when the money was
posted. `Payments!ImplementsLifecycle` is its specification under the refinement
mapping `posted <- {k \in Key : effect[k] > 0}`, checked by TLC and proved.

In `Payments` a request goes through `CheckKey`, `CreatePayment`,
`PublishResolve` (or `PublishUnresolved` for an unknown reference) and
`SetResolving`, each call of `HandlePayment` being a step and `RequestFails` an
error or a crash between two of them. A worker goes through `Deliver`, `Claim`
(the investment worker only), one of `Apply`, `Refuse`, `HandlingFails` and
`RefuseThenFail`, and `Ack`, `FailInvestment` or `FailLoan`. `Dispatch` moves an
outbox row to its queue, or gives it up (`DispatchGivenUp`, a broker that does
not answer for as long as the attempts last), `ConsumeResolved` and `ConsumeUnresolved` close the row
when it is resolving; otherwise the message is requeued as it was, which is no
step. `TryClaimPayment` asks for `resolving` or for a condition on the claim's
age that implies `resolving`, so the model has the first only. Faults are a crash
with a delivery in hand, a commit that is reported as failed, a lost announcement,
a row given up and a repeated dispatch. `redone` and `unannounced` are history variables that
name the payments whose outcome a fault left in doubt, which the properties
about posting except.

### LoanWorker

One loan, as payments of one loan are all that can interfere. `Read` is
`GetLoanByReference`, outside the transaction; `Look` is the lookup of the
overpayment, when the code makes it; then the transaction, one step, writes
values computed from `seen[a]`: `Repay`, `PayOff`, `Overpay`, or `Refuse` for a
repeated overpayment. Each may commit and be reported as failed. A redelivered
payment within the outstanding amount is taken again, in loan and ledger alike;
only overpayments are recognised. Consumers take deliveries, callers make one
HTTP request each. `raced` records that two payments were ever worked on at once:
what holds of payments handled in turn is stated with it, and checked and proved
in the same specification in which they race.

`LoanAccount` is the loan as a borrower would have it: a payment is taken in one
step, from what is outstanding at that moment, and the rest is overpayment, recorded
once. `LoanWorker!ImplementsAccount` is its specification with `overlapped <- raced`.
After an overlap it promises what is left: no more is taken off the loan or recorded
than was credited. `LoanFollowsLedger` says what the first part comes to, the loan as a
function of the credits alone.

### InvestmentWorker

All investments, the actors that bring deposits, the schedulers and the
withdrawal requests. `Read` and then `Create` or `Add` are `resolveInvestment`;
`raced` records investments whose deposits were handled by two actors at once.
The daily run is `Wake` (listing the eligible withdrawals),
`ProcessWithdrawal`, `ListDueForAccrual` (which copies the rows into `snap`),
`Accrue` (which writes what it computes from that copy) and `EndAccruals`.
Withdrawals and accruals fail separately, as in `StartScheduler`, which logs an
error of the withdrawals and goes on; `RunFails` is an error of the accruals, or a
worker that ends and is started again, which also frees a blocked scheduler.

A notice that cannot be published is an error of the request, whose row is stored
all the same, and ends the processing of one withdrawal.

Time is in whole months. Interest is 2.5% of `principal_initial` a month,
rounded to the nearest cent over all months of a run: `(p * m + 20) \div 40`.

`Savings` is the investor's side: a deposit is added in one step, an accrual brings the
interest to that of the months since the first deposit, and nothing else moves either.
`InvestmentWorker!ImplementsSavings` is its specification with `overlapped <- raced`;
an overlap spoils the principal of its own investment only, and interest not at all.

### Book, Ledger and LedgerConsumer

`Book` is the contract of the ledger: a sound posting on accounts that exist is
recorded as a whole, and nothing else happens to the books. `Ledger!ImplementsBook`
is its specification with `Sound <- Valid`, checked by TLC and proved.

`Ledger` is `PostTransaction` by statement: `CreateTransaction` (which also stands
for the validation before it, as nothing shared is touched), `VerifyAccounts`,
one `CreateEntry` for each entry, `Commit`; `Fail` is an error of any of them and
the deferred rollback, `CommitUnknown` a commit that went through and was reported
as failed. What an open transaction has inserted is `written[a]`, which nobody else
sees. Totals are `int64` sums, `Wrap(Total(p, side))`, in a word of `2 * Word`
values; `Total` sums the lines of one side, `OfSide(p, side)`. `Known` are the postings whose type the CHECK of `transactions` allows: an
HTTP request names its type, the consumer passes `payload.Reference` as one
(`cmd/ledger-consumer/main.go:143`). The callers of the API are `Request`, `Answer`
(201 or 500) and `Abort`; accounts are opened (`CreateAccount`) at any time and
never deleted. `told` and `doubted` are history: the successes somebody was told of,
and the commits nobody was.

`LedgerConsumer` adds the processes of the consumer, whose calls of
`PostTransaction` are those of `Ledger`. `Deliver` puts a message into a process's
`inbox`, ahead of what it works on, as no Qos is set. `Take` is the first
`processMessage`, `Again` a retry (`backoff.Retry` calls at once, so one retry
always happens), `GiveUp`, `PublishCopy` and `Nack` the rest of `handleRetry`: two
steps, after which the message is in the dead letter queue twice. `Disconnect`
closes a channel: the broker takes back what the process holds, and the process
goes on until its next use of the channel (`FindClosed`). `LoanWorkerTakes` is the
other reader of the queue. A retry posts under a new id and nothing recognises the
first posting, so a hidden commit or a redelivery posts again; `redone` names the
messages this may have happened to. `Limited` says whether the elapsed time of the
backoff is above zero, which with the repository's `config.yaml` it is not.

## The runs

| Run | Instance | Distinct states | Shows |
|---|---|---|---|
| `Outbox_run` | both dispatchers, two messages, batches of 1 and 2, 2 attempts, 1 fault | 65,147 | safety with everything on, the refinement of `Delivery`, and that messages settle |
| `Outbox_foreign` | both dispatchers, 5 attempts as in the code | violated | a loan message given up though the broker was never asked to take it |
| `Payments_run` | one payment of a loan or an investment by two requests, one with an unknown reference, three workers, 3 faults | 201,750 | safety, the refinement of `PaymentLifecycle`, that what is resolving is carried, and that a resolving loan payment settles |
| `Payments_stuck` | one investment payment, no fault | violated | a payment resolving for ever |
| `Payments_claim` | one investment payment, 1 fault | violated | a claimed payment is claimed again |
| `LoanWorker_run` | one consumer, one call, three payments, 1 fault | 131,364 | never overstated; in turn the books balance; the refinement of `LoanAccount`; every command settles |
| `LoanWorker_lost` | one consumer, one call, no fault | violated | a lost update |
| `InvestmentWorker_run` | three deposits, two actors, one scheduler, a withdrawal, 3 months, 1 fault | 388,894 | deposits and accruals do not disturb each other, the refinement of `Savings`, and that due accruals are made |
| `InvestmentWorker_withdrawal` | one deposit, one withdrawal, 1 month | violated | an eligible withdrawal is never processed |
| `LedgerConsumer_run` | two consumers, the loan worker, one API call, two commands, two accounts of which one is opened late, 1 fault | 318,508 | whole postings, no command lost, one outcome, the book, the queue drains |
| `LedgerConsumer_poison` | two consumers, a command that does not balance, no limit | violated | a failing command is never dead-lettered |
| `Ledger_wrap` | one API call with three debits that wrap | violated | books that do not balance |

### The bounds and why they are enough

- *Messages, payments, requests.* Statements treat rows one by one, so what can
  go wrong needs two: two requests for one key, two messages in one batch, or
  a backlog of two for a batch of one. `Outbox_foreign` has the code's 5 attempts
  and a batch of 10; in `Outbox_run` 2 attempts are the smallest number for which a
  message can be retried and given up.
- *Amounts* (`MCLoanWorker`, `MCInvestmentWorker`). Of a loan of 10: a part (4),
  the exact rest (6), and more than there is (11). The
  deposits of 30, 50 and 20 have interest of 0.75, 1.25 and 0.5 of the unit, so
  rounding goes either way and exactly to the half.
- *Postings* (`MCLedgerConsumer`). One on an account that is opened late, so that it
  fails before and succeeds after; one that does not balance; one of a single
  account; and a payment command. `Word` is 8, the smallest power of two in which the
  amounts fit; in `Ledger_wrap` the debits 7 + 7 + 4 wrap to 2. One call to retry
  (`MaxTries`) stands for the elapsed time: a retry adds no state of its own.
- *MaxFaults* is 1 to 3: a fault, and ones while recovering from it.
- *MaxMonth* is 3: an accrual in time, one a month late, and one after it.
- *MaxTries* bounds how often a payment reaches the investment worker; it is 1 in
  the run, whose three deposits already interfere, and any number in the proofs.
- Deadlock is not checked where a finite number of payments, months or calls
  really comes to an end; `Outbox_run` checks it.

`Outbox_run` counts publishes up to 2, which is all its properties ask.

### Fairness

- A dispatcher's `Step` is weakly fair: a ticker calls `DispatchOnce` every five
  seconds while the process lives, and a process that dies is started again.
  `Expire` is weakly fair for each message, time being what it is. Faults, refusals of the
  broker and the purge are not.
- A worker's steps, the dispatch of an outbox row and the consumers of the
  payments service are weakly fair: each is a loop in a goroutine. Of a request
  only `SetResolving` is, as no client need send one.
- In `LoanWorker` the delivery of each command is strongly fair: the queue is
  first in, first out, and one consumer that takes them in turn reaches each.
- In `LedgerConsumer` the delivery of queued messages and each process are weakly
  fair: the broker delivers while a consumer is there, and a process that ended is
  started again. Nothing makes a client open an account or the loan worker take a
  message.
- A scheduler's `DailyRun` is weakly fair. The ticker of 24 hours starts with the
  process, so this asks that the process stays up for a day now and then.
  `WithdrawalsFail` and `RunFails` are bounded faults.

### What does not hold

Each is a run that ends with a counterexample.

1. `Outbox_foreign`: the claim (`internal/database/outbox_messages.sql.go:24`)
   takes messages of every aggregate type and the investment dispatcher marks
   those of the loan worker as failed. After five such claims
   a loan payment's result is never published, though nobody has tried to.
2. `Payments_stuck`: with no fault at all, a worker that is faster than
   `UpdatePaymentStatus` finds nothing to claim, acknowledges the command, and
   the payment stays resolving for ever. `ClaimedIsCarried` says that this is nearly
   the only way: a payment that was claimed is carried until it is closed, unless a
   message of it was lost or its handling failed within 20 seconds of the claim, which
   dead-letters the command and leaves the row.
3. `Payments_claim`: the age test of `TryClaimPayment` never refuses anything,
   and a redelivery claims what was claimed a moment ago.
4. `LoanWorker_lost`: two concurrent payments of a loan read the same amount, and
   one of them is lost for the loan, though both are in the ledger.
5. `InvestmentWorker_withdrawal`: the transfer of a withdrawal credits the account
   whose id is the *investment's*; there is none, and the withdrawal stays
   pending for ever.

6. `LedgerConsumer_poison`: the program reads `retry.max_retries`, `config.yaml:11`
   has `max_attempts`; the elapsed time is then zero, which `backoff` takes as no
   limit, and a command that can only fail is tried for ever while those behind it
   wait. A payment's command that the consumer takes from the loan queue is such a
   one.
7. `Ledger_wrap`: debits whose `int64` sum wraps to that of the credits are stored.

More follow from one statement each and have no run:

- A payment with an unknown reference is announced as unresolved while its row is
  received, a state from which `TryUnresolvePayment` does not move it.
- With both dispatchers running, the loan dispatcher may keep an investment message
  locked again and again: `EveryMessageSettles` excepts this, and only this.
- The command format in `README.md` has no `transaction_id`, so each of its messages
  fails at `uuid.Parse` (`cmd/ledger-consumer/main.go:129`); its entry types and
  reference are not those the service and the schema accept.
- `getTransactionsHandler` reads the query parameter `id` where the route has the
  path value `{id}`; the query of `GetBalance` takes its argument for the type of an
  entry (`internal/database/entries.sql.go:57`), so no account has a balance.
- Accruals and notices have no queue in `config.yaml` and are published to a queue without a name, which the broker drops.

## The proofs

TLAPS proves the theorems below for all values of the constants that satisfy the
named assumptions: any messages, payments, requests, workers, dispatchers,
schedulers, postings, accounts, amounts and bounds. The assumptions give the constants their types;
`DispatcherAssumption` (finitely many) is there because `AttemptsBound` counts,
and `Amount \in [Event -> Nat \ {0}]` of the investment worker because the code
rejects any other amount before the model's first step.

**Outbox** (`OutboxProofs`). `TypeCorrect`; `PublishedIsSent`,
`DuplicatesNeedExpiry` and `PublishedStays` come from one inductive invariant,
`SendInv`. Its heart is `ExclusiveClaim`: a message whose lock never expired is
in the hands of one dispatcher at most, is being processed as long as it is, and
is unsent while it waits in a batch. Without it nothing excludes a second
dispatcher that publishes the same row. `DeliveryIsImplemented` maps each step to one
of `Delivery` or to a stutter; to `SendInv` it adds `HeldWasWritten`, that what a
dispatcher holds has a row, and the lemmas `OnePhaseMoves` and `PhasesMove` compute
what a statement does to the mapped state. A purge and a release of locks act on many
rows at once, so `Drop` and `Expire` take sets. `AttemptsStayBounded` has an invariant
of its own, `ChargeInv`: attempts plus the number of dispatchers holding the
message stay within the bound, as each holder may charge it once more.
`InvestmentDiesOfRefusals` adds that the attempts of an investment message are no
more than the broker's refusals of it (`ChargesAreRefusals`): the loan dispatcher skips
it, an expired lock costs nothing, and its own dispatcher charges what was refused.
`LoanDiesOfRefusals` proves the same of loan messages, and with it the property that
`Outbox_foreign` violates, under the assumption that no
dispatcher of the investment worker polls the table: what the run finds has no other
cause.

**Payments** (`PaymentsProofs`). `CommandIsUnique` rests on `AloneInv`: the unique
key lets one request through (`RequestsAreAlone`), nothing has happened to a
payment before that request publishes (`Untouched`), and after it there is one
copy of the command in one place (`CopyIsAlone`). On top of it `OutcomeInv` says
that a payment still to be worked on has no posting and no refusal
(`OutcomeIsOne`), which gives `RefusedIsNotApplied` and `PostedOnce`.
`CompletedIsApplied` follows from the messages: what says resolved stands for a
posting (`ResolvedMeansApplied`). `ClosedStaysClosed` needs `RequestsAreAlone`:
only because the row is still received when `UpdatePaymentStatus` comes does its
missing guard do no harm. `LifecycleIsImplemented` maps each step to one of
`PaymentLifecycle` or to a stutter. `LoansAreCarried` and
`ClaimedAreCarried` come from one invariant, `PaymentsInFlight`: a payment that someone
waits for (`Expected`: of a loan, when its row is resolving or about to be; of an
investment, when it was claimed and not dead-lettered) has its command, a worker that
has not committed, or a message. Each step that takes it from one of these places puts
it, or what follows, in another. That needs `OwnWork`, a worker works on payments of its
own queue, and `ClaimedWasResolving`, a row that was claimed is resolving or closed.

**Loan worker** (`LoanWorkerProofs`). `NothingIsInvented` holds for any number of
consumers and calls: what an actor computes from was once right, and credits only
grow (`SeenNeverOverstated`). `AccountIsImplemented` holds
of every behaviour: while no two payments were handled at once an actor that writes
has read what is still there (`SeenIsCurrent`), so its transaction is one of the
abstract account; afterwards `SeenNeverOverstated` is what its weaker promise needs.
Of the `Serial...` theorems, `SerialLoanFollowsLedger` is proved of `LoanAccount` and
carried over by the refinement; the other three rest on `SerialInv`: until two payments
were handled at once, one actor at most is at work (`Turn`), and what it has read is
still right. `LoanWorker_lost` shows that the condition is needed.

**Investment worker** (`InvestmentWorkerProofs`). `AccrualIsCalendar` holds for any
number of schedulers, though they overwrite each other: total and date are
written together and each pair a scheduler has read follows the calendar
(`ListedFollows`), whatever became of the row since. Rounding is bounded by an
arithmetic lemma on `\div`. `PrincipalIsCovered` is as for loans;
`PrincipalIsDeposited` needs that no two actors handled the investment's deposits
at once (`HandlersAreAlone`), and nothing of the scheduler. `AnnouncementsAddUp`
assumes `OneScheduler`, under which the listed totals are still those of the
rows (`ListedIsCurrent`). `SavingsAreImplemented` needs both invariants and no
`OneScheduler`: a deposit is one of `Savings` because what was read is current or the
investment has raced, an accrual because the row it was computed from follows the
calendar, however old it is.

**Ledger** (`LedgerProofs`), for any postings, accounts, callers and consumers.
`Shape` says what each actor may be working on, and that a process whose channel has
closed is at work and holds nothing else. `BooksAreAnswered` needs nothing else: a commit adds one
transaction and one actor that is about to answer, and an actor that leaves is
counted as told or as doubted. `BookIsImplemented` needs `SoundWork`: what an actor
writes was validated and its accounts exist, which stays true as no account is
deleted. `TransactionsAreWhole` follows from the abstract book. `DoubleEntry` puts the
two together: only sound postings are in the books, each line as often as its
transaction, so each side has its total that many times, and the totals of a sound
posting are equal as long as they do not wrap (`SoundTotals`). That last condition is
in the property (`Fitting`), and `Ledger_wrap` shows why. `NoCommandIsLost`
needs `PostedIsThere`: what is about to be acknowledged is in the books.
`OutcomeOnce` needs `PlacedOnce`, that a message not delivered again is in one place
only, and `Outcome`, what each of these places says of its posting and of its
letters.

**Sums** (`SumProofs`). `SumFunctionOnSet` of the community modules is a CHOOSE of a
recursive function, and the library's induction over finite sets takes an operator.
The lemmas therefore go by minimal elements of a well-founded relation
(`SubsetInduction`, about a set of sets): the recursion has one solution on the subsets
of a finite set (`SolutionExists`, `SolutionsAgree`), from which follow the value of a
sum step by step (`SumStep`), and sums of naturals and of multiples.

Every strengthening was first checked by TLC as an invariant of the same
instances.

### Only model-checked

- Liveness: `EveryMessageSettles`, `LoanSettles`, both `EveryCommandSettles`,
  `AccrualsCatchUp`. Liveness under fairness is out of the prover's reach, as is
  ENABLED. No module has a recursive definition. Every invariant and every action
  property of a passing run, and each of the five refinements, is a theorem.

## What is not modelled, and why

- **The ledger consumer in the models of a payment.** `Payments` and `LoanWorker` have
  the loan queue to themselves. A payment command that the ledger consumer takes
  comes to nothing (`LedgerConsumer`), and the payment stays resolving.
- **Reads**: balances, account history, lists and getters change no state.
  `LedgerService.CreateEntry` and `CreateClient` have no caller.
- **HTTP `/payment` of the workers** is in `LoanWorker` and `InvestmentWorker`, not
  in `Payments`: such a call has no row in `payments`. (`docs/ARCHITECTURE.md`
  describes it as going through the queues; the code calls `HandlePaymentEvent`.)
- **Database connections and row locks.** The error paths of the investment worker
  leave a transaction open until its context ends. Transactions that write the
  same row are in some order in the models.
- **An error of the calls that handle an error** (of `TryFailPayment`, of a Nack)
  ends as one of the outcomes that are modelled: the row stays resolving, or the
  delivery is repeated.
- **Days within a month**, and so the drift of `AddDate` at the end of a month;
  interest is exact in the model where the code computes in `float64`.
- **What becomes of notices** (`investment_notice.go`): no queue is configured for
  them; that publishing one may fail is modelled.
- **The answer to a failed `POST /accounts`**, an empty 200.
- **Migrations, connection set-up, configuration loading, logging**: run once or
  change no state. Their defaults, CHECKs and unique constraints are in the
  initial states and guards.
- **Code without a caller**: `payment/reference.go`, `internal/investment`, the
  tables `unresolved_payments` and `investment_accruals`, `CreateLoan`.

## State of the plan

Done: the outbox, the payments pipeline, the loan worker, the investment worker and
the ledger, each with an abstract specification and the proof that it implements it;
the ledger consumer composed with the ledger and with the other reader of its queue;
and the proofs of their safety.

Left: days within a month, for the drift of accrual days; a composition of
`Payments` with `LoanWorker` and the ledger consumer on one queue, which needs larger
instances than a few minutes allow; database connections and row locks, for the
transactions that error paths leave open.
