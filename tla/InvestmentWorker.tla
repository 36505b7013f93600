-------------------------- MODULE InvestmentWorker --------------------------
(***************************************************************************)
(* The investment worker: the deposits that HandlePaymentEvent and         *)
(* resolveInvestment make for the consumer and for HTTP calls, and the     *)
(* daily scheduler with its withdrawals and accruals, all on the rows of   *)
(* the table investments.                                                  *)
(*                                                                         *)
(* Time is counted in whole months.  At that grain last_accrual_at, once   *)
(* it is set, is a month before next_accrual_at, which alone is kept.      *)
(* What becomes of the payment of a deposit is in the module Payments: a   *)
(* redelivery is one more deposit of the same event here.                  *)
(***************************************************************************)
EXTENDS Integers, FiniteSets

CONSTANTS
  Investment,   \* the references of the investments
  Event,        \* the external ids of the payments
  Target,       \* the investment each payment is for
  Amount,       \* event.Amount
  Actor,        \* the consumer and the HTTP calls that handle payments
  Scheduler,    \* the schedulers, one per running worker
  Withdrawal,   \* the withdrawal requests
  From,         \* the investment each one draws on
  Demand,       \* the amount it asks for
  Account,      \* the ids of the accounts in the ledger
  MaxMonth,     \* bound: the last month
  MaxTries,     \* bound: how often a payment is delivered
  MaxFaults     \* bound: accrual runs that fail

ASSUME TargetAssumption   == Target \in [Event -> Investment]
ASSUME AmountAssumption   == Amount \in [Event -> Nat \ {0}]
ASSUME FromAssumption     == From \in [Withdrawal -> Investment]
ASSUME DemandAssumption   == Demand \in [Withdrawal -> Nat \ {0}]
ASSUME BoundsAssumption   == MaxMonth \in Nat /\ MaxTries \in Nat /\ MaxFaults \in Nat

VARIABLES
  month,      \* the months that have passed
  opened,     \* the investments with a row
  initial,    \* principal_initial
  current,    \* principal_current
  accrued,    \* accrued_interest
  created,    \* the month of created_at
  next,       \* the month of next_accrual_at
  credited,   \* the sum of the deposits in the ledger
  announced,  \* the sum of the accruals announced by outbox rows
  pc,         \* where each actor is in resolveInvestment
  event,      \* the event it handles, if any
  seen,       \* what it read: whether there is a row, and its principal_current
  tries,      \* deliveries of each event so far
  raced,      \* history: investments that two actors handled at once
  spc,        \* where each scheduler is in its daily run
  list,       \* withdrawals or investments it has still to process
  snap,       \* the columns of the investments as it listed them
  pending,    \* the withdrawals requested and not processed
  due,        \* the month of eligible_at of each of them
  processed,  \* the withdrawals that were processed
  faults      \* failed accrual runs so far

row       == <<opened, initial, current, accrued, created, next>>
deposit   == <<credited, pc, event, seen, tries, raced>>
schedule  == <<announced, spc, list, snap, faults>>
withdrawn == <<pending, due, processed>>
vars      == <<month, row, deposit, schedule, withdrawn>>

Zero      == [i \in Investment |-> 0]
NoColumns == [initial |-> Zero, accrued |-> Zero, next |-> Zero]
NotSeen   == [found |-> FALSE, current |-> 0]

Init ==
  /\ month     = 0
  /\ opened    = {}
  /\ initial   = Zero
  /\ current   = Zero
  /\ accrued   = Zero
  /\ created   = Zero
  /\ next      = Zero
  /\ credited  = Zero
  /\ announced = Zero
  /\ pc        = [a \in Actor |-> "idle"]
  /\ event     = [a \in Actor |-> {}]
  /\ seen      = [a \in Actor |-> NotSeen]
  /\ tries     = [e \in Event |-> 0]
  /\ raced     = {}
  /\ spc       = [s \in Scheduler |-> "idle"]
  /\ list      = [s \in Scheduler |-> {}]
  /\ snap      = [s \in Scheduler |-> NoColumns]
  /\ pending   = {}
  /\ due       = [w \in Withdrawal |-> 0]
  /\ processed = {}
  /\ faults    = 0

-----------------------------------------------------------------------------
(* The statements of investments.sql and withdrawals_payable.sql *)

\* The principal that was read and the one it becomes may be far apart in time: the
\* statement sets, it does not add.
UpdateInvestmentPrincipal(i, amount) == current' = [current EXCEPT ![i] = amount]

UpdateInvestmentAccrual(i, total, date) ==
  /\ accrued' = [accrued EXCEPT ![i] = total]
  /\ next'    = [next    EXCEPT ![i] = date]

GetDueAccruals == {i \in opened : next[i] <= month}

CreateInvestmentWithdrawal(w) ==
  /\ pending' = pending \cup {w}
  /\ due' = [due EXCEPT ![w] = month + 1]

ListEligibleWithdrawals == {w \in pending : due[w] <= month}

-----------------------------------------------------------------------------
(* Deposits *)

At(a, e, l) == pc[a] = l /\ event[a] = {e}

Goto(a, l) ==
  /\ pc' = [pc EXCEPT ![a] = l]
  /\ UNCHANGED event

Leave(a) ==
  /\ pc'    = [pc    EXCEPT ![a] = "idle"]
  /\ event' = [event EXCEPT ![a] = {}]
  /\ seen'  = [seen  EXCEPT ![a] = NotSeen]

\* The actors at work on an investment.
Handlers(i) == {a \in Actor : \E e \in event[a] : Target[e] = i}

Start(a, e) ==
  /\ pc[a] = "idle"
  /\ tries[e] < MaxTries
  /\ pc'    = [pc    EXCEPT ![a] = "begun"]
  /\ event' = [event EXCEPT ![a] = {e}]
  /\ tries' = [tries EXCEPT ![e] = @ + 1]
  /\ raced' = IF Handlers(Target[e]) = {} THEN raced ELSE raced \cup {Target[e]}
  /\ UNCHANGED <<month, row, credited, seen, schedule, withdrawn>>

\* GetInvestmentByReference, outside the transaction.
Read(a, e) ==
  /\ At(a, e, "begun")
  /\ seen' = [seen EXCEPT ![a] = [found   |-> Target[e] \in opened,
                                  current |-> current[Target[e]]]]
  /\ Goto(a, "write")
  /\ UNCHANGED <<month, row, credited, tries, raced, schedule, withdrawn>>

\* An account that is missing or of another type, a lost connection, a dead worker:
\* nothing of the deposit is committed.
Fail(a, e) ==
  /\ event[a] = {e}
  /\ Leave(a)
  /\ UNCHANGED <<month, row, credited, tries, raced, schedule, withdrawn>>

\* The deposit in the ledger, in the transaction that writes the row.
Post(e) == credited' = [credited EXCEPT ![Target[e]] = @ + Amount[e]]

\* The first deposit of a reference opens the investment.
Create(a, e) ==
  LET i == Target[e] IN
  /\ At(a, e, "write")
  /\ ~seen[a].found
  /\ i \notin opened
  /\ opened'  = opened \cup {i}
  /\ initial' = [initial EXCEPT ![i] = Amount[e]]
  /\ current' = [current EXCEPT ![i] = Amount[e]]
  /\ created' = [created EXCEPT ![i] = month]
  /\ next'    = [next    EXCEPT ![i] = month + 1]
  /\ Post(e)
  /\ Leave(a)
  /\ UNCHANGED <<month, accrued, tries, raced, schedule, withdrawn>>

\* reference is unique: the row was inserted since it was looked up.
CreateFails(a, e) ==
  /\ At(a, e, "write")
  /\ ~seen[a].found
  /\ Target[e] \in opened
  /\ Leave(a)
  /\ UNCHANGED <<month, row, credited, tries, raced, schedule, withdrawn>>

\* Mutant: the deposit is taken off the principal.
AddSubtracted(a, e) ==
  LET i == Target[e] IN
  /\ At(a, e, "write")
  /\ seen[a].found
  /\ current' = [current EXCEPT ![i] = seen[a].current - Amount[e]]
  /\ Post(e)
  /\ Leave(a)
  /\ UNCHANGED <<month, opened, initial, accrued, created, next, tries, raced, schedule, withdrawn>>

\* Mutant: the principal is written in a transaction of its own, and the posting fails.
AddUnposted(a, e) ==
  LET i == Target[e] IN
  /\ At(a, e, "write")
  /\ seen[a].found
  /\ current' = [current EXCEPT ![i] = seen[a].current + Amount[e]]
  /\ Leave(a)
  /\ UNCHANGED <<month, opened, initial, accrued, created, next, credited, tries, raced, schedule, withdrawn>>

\* Mutant: a deposit raises the principal that bears interest.
AddToInitial(a, e) ==
  LET i == Target[e] IN
  /\ At(a, e, "write")
  /\ seen[a].found
  /\ current' = [current EXCEPT ![i] = seen[a].current + Amount[e]]
  /\ initial' = [initial EXCEPT ![i] = @ + Amount[e]]
  /\ Post(e)
  /\ Leave(a)
  /\ UNCHANGED <<month, opened, accrued, created, next, tries, raced, schedule, withdrawn>>

\* A further one adds to the principal that was read; principal_initial, from which
\* the interest is calculated, stays.
Add(a, e) ==
  LET i == Target[e] IN
  /\ At(a, e, "write")
  /\ seen[a].found
  /\ UpdateInvestmentPrincipal(i, seen[a].current + Amount[e])
  /\ Post(e)
  /\ Leave(a)
  /\ UNCHANGED <<month, opened, initial, accrued, created, next, tries, raced, schedule, withdrawn>>

-----------------------------------------------------------------------------
(* Withdrawals *)

\* RequestWithdrawal, from the ledger's HTTP interface: the notice period is a month,
\* and what other withdrawals ask for does not count.  The row stays when its notice
\* cannot be sent, and the caller, who is answered with an error, may ask again.
RequestWithdrawal(w) ==
  /\ w \notin pending \cup processed
  /\ From[w] \in opened
  /\ Demand[w] <= current[From[w]]
  /\ CreateInvestmentWithdrawal(w)
  /\ UNCHANGED <<month, row, deposit, schedule, processed>>

\* The daily run lists the eligible withdrawals.
Wake(s) ==
  /\ spc[s] = "idle"
  /\ spc'  = [spc  EXCEPT ![s] = "withdrawals"]
  /\ list' = [list EXCEPT ![s] = ListEligibleWithdrawals]
  /\ UNCHANGED <<month, row, deposit, announced, snap, faults, withdrawn>>

\* The check that Transfer makes of the account it credits.
Transferable(w) == From[w] \in Account

\* The status of the row and the transfer are in one transaction.  The transfer is
\* to the account that has the id of the investment; without one, the transaction is
\* left to be rolled back, and the row stays pending.  With one, the status is set
\* to processed over another connection, which waits for the row for ever.  The notice
\* before it goes to a queue that is not configured, and is sent if the channel is open.
ProcessWithdrawal(s, w) ==
  /\ spc[s] = "withdrawals"
  /\ w \in list[s]
  /\ list' = [list EXCEPT ![s] = @ \ {w}]
  /\ \E noticed \in BOOLEAN :
       spc' = [spc EXCEPT ![s] = IF noticed /\ Transferable(w) THEN "blocked" ELSE @]
  /\ UNCHANGED <<month, row, deposit, announced, snap, faults, withdrawn>>

\* An error leaves the other withdrawals for the next day; the accruals come all the same.
WithdrawalsFail(s) ==
  /\ spc[s] = "withdrawals"
  /\ list[s] # {}
  /\ faults < MaxFaults
  /\ faults' = faults + 1
  /\ list' = [list EXCEPT ![s] = {}]
  /\ UNCHANGED <<month, row, deposit, announced, spc, snap, withdrawn>>

-----------------------------------------------------------------------------
(* Accruals *)

\* Mutant: the accrual that is due now is left for later.
ListDueTooLate(s) ==
  /\ spc[s] = "withdrawals"
  /\ list[s] = {}
  /\ spc'  = [spc  EXCEPT ![s] = "accruals"]
  /\ list' = [list EXCEPT ![s] = {i \in opened : next[i] < month}]
  /\ snap' = [snap EXCEPT ![s] = [initial |-> initial, accrued |-> accrued, next |-> next]]
  /\ UNCHANGED <<month, row, deposit, announced, faults, withdrawn>>

\* ListDueForAccrual reads whole rows; each is processed as it was read here.
ListDueForAccrual(s) ==
  /\ spc[s] = "withdrawals"
  /\ list[s] = {}
  /\ spc'  = [spc  EXCEPT ![s] = "accruals"]
  /\ list' = [list EXCEPT ![s] = GetDueAccruals]
  /\ snap' = [snap EXCEPT ![s] = [initial |-> initial, accrued |-> accrued, next |-> next]]
  /\ UNCHANGED <<month, row, deposit, announced, faults, withdrawn>>

\* 2.5% a month, rounded to the nearest cent.
Interest(principal, months) == (principal * months + 20) \div 40

\* The months from the last accrual to now.
MonthsElapsed(s, i) == month + 1 - snap[s].next[i]

\* Mutant: the next accrual is a month from the last one, however many months were paid.
AccrueOneMonth(s, i) ==
  LET amount == Interest(snap[s].initial[i], MonthsElapsed(s, i)) IN
  /\ spc[s] = "accruals"
  /\ i \in list[s]
  /\ accrued'   = [accrued   EXCEPT ![i] = snap[s].accrued[i] + amount]
  /\ next'      = [next      EXCEPT ![i] = snap[s].next[i] + 1]
  /\ announced' = [announced EXCEPT ![i] = @ + amount]
  /\ list'      = [list      EXCEPT ![s] = @ \ {i}]
  /\ UNCHANGED <<month, opened, initial, current, created, deposit, spc, snap, faults, withdrawn>>

\* Mutant: UpdateInvestment instead of UpdateInvestmentAccrual, with a principal_current
\* the accrual does not set.
AccrueWholeRow(s, i) ==
  LET amount == Interest(snap[s].initial[i], MonthsElapsed(s, i)) IN
  /\ spc[s] = "accruals"
  /\ i \in list[s]
  /\ accrued'   = [accrued   EXCEPT ![i] = snap[s].accrued[i] + amount]
  /\ next'      = [next      EXCEPT ![i] = snap[s].next[i] + MonthsElapsed(s, i)]
  /\ current'   = [current   EXCEPT ![i] = 0]
  /\ announced' = [announced EXCEPT ![i] = @ + amount]
  /\ list'      = [list      EXCEPT ![s] = @ \ {i}]
  /\ UNCHANGED <<month, opened, initial, created, deposit, spc, snap, faults, withdrawn>>

\* Mutant: the row may be processed again as it was listed.
AccrueAgain(s, i) ==
  LET amount == Interest(snap[s].initial[i], MonthsElapsed(s, i)) IN
  /\ spc[s] = "accruals"
  /\ i \in list[s]
  /\ accrued'   = [accrued   EXCEPT ![i] = snap[s].accrued[i] + amount]
  /\ next'      = [next      EXCEPT ![i] = snap[s].next[i] + MonthsElapsed(s, i)]
  /\ announced' = [announced EXCEPT ![i] = @ + amount]
  /\ UNCHANGED <<month, opened, initial, current, created, list, deposit, spc, snap, faults, withdrawn>>

\* ProcessInvestmentAccrual: the new total and date, computed from the listed row, and
\* the outbox row, in one transaction.
Accrue(s, i) ==
  LET amount == Interest(snap[s].initial[i], MonthsElapsed(s, i)) IN
  /\ spc[s] = "accruals"
  /\ i \in list[s]
  /\ UpdateInvestmentAccrual(i, snap[s].accrued[i] + amount, snap[s].next[i] + MonthsElapsed(s, i))
  /\ announced' = [announced EXCEPT ![i] = @ + amount]
  /\ list'      = [list      EXCEPT ![s] = @ \ {i}]
  /\ UNCHANGED <<month, opened, initial, current, created, deposit, spc, snap, faults, withdrawn>>

Sleep(s) ==
  /\ spc'  = [spc  EXCEPT ![s] = "idle"]
  /\ list' = [list EXCEPT ![s] = {}]
  /\ snap' = [snap EXCEPT ![s] = NoColumns]

EndAccruals(s) ==
  /\ spc[s] = "accruals"
  /\ list[s] = {}
  /\ Sleep(s)
  /\ UNCHANGED <<month, row, deposit, announced, faults, withdrawn>>

\* An error of an accrual, or a shutdown or crash of the worker, ends the run; the rest waits
\* for the next day.  A worker that is started again has a scheduler that is not blocked.
RunFails(s) ==
  /\ spc[s] # "idle"
  /\ faults < MaxFaults
  /\ faults' = faults + 1
  /\ Sleep(s)
  /\ UNCHANGED <<month, row, deposit, announced, withdrawn>>

MonthPasses ==
  /\ month < MaxMonth
  /\ month' = month + 1
  /\ UNCHANGED <<row, deposit, schedule, withdrawn>>

-----------------------------------------------------------------------------

Handle(a) ==
  \E e \in Event :
    Start(a, e) \/ Read(a, e) \/ Fail(a, e) \/ Create(a, e) \/ CreateFails(a, e) \/ Add(a, e)

DailyRun(s) ==
  \/ Wake(s)
  \/ \E w \in Withdrawal : ProcessWithdrawal(s, w)
  \/ ListDueForAccrual(s)
  \/ \E i \in Investment : Accrue(s, i)
  \/ EndAccruals(s)

Next ==
  \/ \E a \in Actor : Handle(a)
  \/ \E w \in Withdrawal : RequestWithdrawal(w)
  \/ \E s \in Scheduler : DailyRun(s) \/ WithdrawalsFail(s) \/ RunFails(s)
  \/ MonthPasses

Spec == Init /\ [][Next]_vars

\* The ticker of the scheduler keeps running.
FairSpec == Spec /\ \A s \in Scheduler : WF_vars(DailyRun(s))

-----------------------------------------------------------------------------
(* Properties *)

Columns == [initial : [Investment -> Nat], accrued : [Investment -> Nat], next : [Investment -> Nat]]

TypeOK ==
  /\ month     \in 0 .. MaxMonth
  /\ opened    \in SUBSET Investment
  /\ initial   \in [Investment -> Nat]
  /\ current   \in [Investment -> Nat]
  /\ accrued   \in [Investment -> Nat]
  /\ created   \in [Investment -> Nat]
  /\ next      \in [Investment -> Nat]
  /\ credited  \in [Investment -> Nat]
  /\ announced \in [Investment -> Nat]
  /\ pc        \in [Actor -> {"idle", "begun", "write"}]
  /\ event     \in [Actor -> SUBSET Event]
  /\ seen      \in [Actor -> [found : BOOLEAN, current : Nat]]
  /\ tries     \in [Event -> 0 .. MaxTries]
  /\ raced     \in SUBSET Investment
  /\ spc       \in [Scheduler -> {"idle", "withdrawals", "accruals", "blocked"}]
  /\ list      \in [Scheduler -> SUBSET (Withdrawal \cup Investment)]
  /\ snap      \in [Scheduler -> Columns]
  /\ pending   \in SUBSET Withdrawal
  /\ due       \in [Withdrawal -> Nat]
  /\ processed \in SUBSET Withdrawal
  /\ faults    \in 0 .. MaxFaults

\* However deposits, accruals and withdrawals interleave, an investor's principal is
\* never more than was deposited in the ledger.
PrincipalNeverOverstated == \A i \in Investment : current[i] <= credited[i]

\* It is exactly that as long as no two deposits of the investment are handled at once:
\* the scheduler, which works from rows it read before, takes nothing away from it.
PrincipalMatchesLedger == \A i \in Investment \ raced : current[i] = credited[i]

\* The interest an investment has accrued is that of the months up to its next accrual,
\* but for half a cent a month of rounding; no month counts twice, none is left out, and
\* none is paid before it is over.
Follows(i, total, date) ==
  /\ 40 * total <= (initial[i] + 20) * (date - 1 - created[i])
  /\ 40 * total >= (initial[i] - 20) * (date - 1 - created[i])

AccrualFollowsCalendar ==
  \A i \in opened :
    /\ next[i] <= month + 1
    /\ Follows(i, accrued[i], next[i])

\* With one scheduler, what the investors are told adds up to what was accrued.
AccruedIsAnnounced == \A i \in Investment : announced[i] = accrued[i]

TheSavings == INSTANCE Savings WITH overlapped <- raced

\* Deposits read in one step and written in another, accruals written from rows listed before
\* and runs that fail half way keep an investor's savings as the abstract ones are kept.
ImplementsSavings == TheSavings!Spec

\* An accrual that is due is made, failed runs and months of delay notwithstanding.
AccrualsCatchUp ==
  \A i \in Investment : (i \in opened /\ next[i] <= month) ~> next[i] > month

\* What the comment on ProcessEligibleWithdrawals says: a withdrawal whose notice
\* period is over is completed.
EligibleIsProcessed ==
  \A w \in Withdrawal : (w \in pending /\ due[w] <= month) ~> w \in processed

\* What resolveInvestment writes from was once right: the principal it read is not more
\* than the deposits in the ledger.
SeenNeverOverstated ==
  \A a \in Actor, e \in Event :
    At(a, e, "write") /\ seen[a].found => seen[a].current <= credited[Target[e]]

\* It is still right of an investment whose deposits were never handled at once.
SeenIsCurrent ==
  \A a \in Actor, e \in Event :
    At(a, e, "write") /\ Target[e] \notin raced
      => seen[a] = [found |-> Target[e] \in opened, current |-> current[Target[e]]]

HandlersAreAlone ==
  \A a, b \in Actor : \A d \in event[a], e \in event[b] :
    Target[d] = Target[e] /\ Target[e] \notin raced => a = b

EventsAreSingle == \A a \in Actor : event[a] = {} \/ \E e \in Event : event[a] = {e}

\* An investment without a row has nothing in it, and nobody has read one.
UnopenedIsEmpty ==
  /\ \A i \in Investment \ opened : current[i] = 0 /\ accrued[i] = 0
  /\ \A a \in Actor, e \in Event : At(a, e, "write") /\ seen[a].found => Target[e] \in opened

\* The rows a scheduler works from are those of open investments whose accrual is due,
\* and the total in each follows the calendar up to the date in it.
ListedFollows ==
  \A s \in Scheduler : spc[s] = "accruals" =>
    \A i \in list[s] :
      /\ i \in opened
      /\ snap[s].initial[i] = initial[i]
      /\ snap[s].next[i] <= month
      /\ Follows(i, snap[s].accrued[i], snap[s].next[i])

\* With one scheduler, the totals it listed are still those of the rows.
ListedIsCurrent ==
  \A s \in Scheduler : spc[s] = "accruals" =>
    \A i \in list[s] : snap[s].accrued[i] = accrued[i]

=============================================================================
