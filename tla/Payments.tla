------------------------------ MODULE Payments ------------------------------
(***************************************************************************)
(* The way of a payment: HandlePayment of the payments service, the        *)
(* command queues of the loan and the investment worker, the claim, the    *)
(* workers' transaction with its outbox row, the queues of resolved and    *)
(* unresolved payments, and the consumers that close the payments row.     *)
(*                                                                         *)
(* What a worker does to a loan or an investment is the choice between a   *)
(* posting and a refusal.  An outbox row is sent at least once, as the     *)
(* module Outbox shows.  A delivery that is put back on its queue          *)
(* unchanged (Nack with requeue) is no step.                               *)
(***************************************************************************)
EXTENDS Naturals, FiniteSets

CONSTANTS
  Key,        \* the external ids, which are the idempotency keys
  Targets,    \* what the payments may be for: functions on Key, see target
  Request,    \* the HTTP requests
  KeyOf,      \* the payment each request brings
  Worker,     \* the worker processes
  Service,    \* the queue each worker consumes
  MaxFaults   \* bound: crashes and lost calls of one behaviour

Services == {"loan", "investment"}

ASSUME TargetAssumption  == Targets \subseteq [Key -> Services \cup {"none"}]
ASSUME KeyOfAssumption   == KeyOf \in [Request -> Key]
ASSUME ServiceAssumption == Service \in [Worker -> Services]
ASSUME FaultsAssumption  == MaxFaults \in Nat

VARIABLES
  target,      \* entity_type of each payment's reference, or "none": never changes
  status,      \* payments.status, "none" before the insert
  age,         \* payments.resolving_started_at: "null", "young" or over 20 seconds "old"
  hpc,         \* where each request is in HandlePayment
  command,     \* copies of the RESOLVE_PAYMENT command waiting in the command queue
  dead,        \* copies of it in the dead letter queue
  wpc,         \* where each worker is with its delivery
  task,        \* the payment of that delivery, if any
  outbox,      \* outbox rows not sent yet, by outcome
  queue,       \* messages in the resolved and the unresolved queue
  effect,      \* how often the payment's money was posted
  faults,      \* faults so far
  redone,      \* history: payments whose outcome a fault left in doubt
  unannounced  \* history: payments that a message was lost of

payment == <<target, status, age>>
work    == <<wpc, task>>
mail    == <<outbox, queue>>
history == <<faults, redone, unannounced>>
vars    == <<payment, hpc, command, dead, work, mail, effect, history>>

Outcomes == {"resolved", "unresolved"}
Nothing  == [o \in Outcomes |-> [k \in Key |-> 0]]

Init ==
  /\ target \in Targets
  /\ status      = [k \in Key |-> "none"]
  /\ age         = [k \in Key |-> "null"]
  /\ hpc         = [r \in Request |-> "idle"]
  /\ command     = [k \in Key |-> 0]
  /\ dead        = [k \in Key |-> 0]
  /\ wpc         = [w \in Worker |-> "idle"]
  /\ task        = [w \in Worker |-> {}]
  /\ outbox      = Nothing
  /\ queue       = Nothing
  /\ effect      = [k \in Key |-> 0]
  /\ faults      = 0
  /\ redone      = {}
  /\ unannounced = {}

Fault == faults < MaxFaults /\ faults' = faults + 1

Incr(f, k) == [f EXCEPT ![k] = @ + 1]
Decr(f, k) == [f EXCEPT ![k] = @ - 1]

Put(box, o, k)  == [box EXCEPT ![o] = Incr(@, k)]
Drop(box, o, k) == [box EXCEPT ![o] = Decr(@, k)]

-----------------------------------------------------------------------------
(* The statements of payments.sql that guard a status *)

\* The two cases of the statement's WHERE are one: every resolving row is claimed.
TryClaimPayment(k) ==
  /\ status[k] = "resolving"
  /\ age' = [age EXCEPT ![k] = "young"]
  /\ UNCHANGED <<target, status>>

TryCompletePayment(k) ==
  /\ status[k] = "resolving"
  /\ status' = [status EXCEPT ![k] = "completed"]
  /\ UNCHANGED <<target, age>>

\* Mutant: a payment may also be closed before it is resolving.
TryUnresolveEarly(k) ==
  /\ status[k] \in {"received", "resolving"}
  /\ status' = [status EXCEPT ![k] = "unresolved"]
  /\ UNCHANGED <<target, age>>

TryUnresolvePayment(k) ==
  /\ status[k] = "resolving"
  /\ status' = [status EXCEPT ![k] = "unresolved"]
  /\ UNCHANGED <<target, age>>

\* Mutant: a status the table's CHECK does not know.
TryFailAsError(k) ==
  /\ status' = [status EXCEPT ![k] = IF @ = "resolving" /\ age[k] = "old" THEN "error" ELSE @]
  /\ UNCHANGED <<target, age>>

\* Mutant: the old claim alone decides.
TryFailAnyStatus(k) ==
  /\ status' = [status EXCEPT ![k] = IF age[k] = "old" THEN "failed" ELSE @]
  /\ UNCHANGED <<target, age>>

TryFailPayment(k) ==
  /\ status' = [status EXCEPT ![k] = IF @ = "resolving" /\ age[k] = "old" THEN "failed" ELSE @]
  /\ UNCHANGED <<target, age>>

\* By id, whatever the status is.
UpdatePaymentStatus(k) ==
  /\ status' = [status EXCEPT ![k] = "resolving"]
  /\ UNCHANGED <<target, age>>

-----------------------------------------------------------------------------
(* HandlePayment, one HTTP request *)

Step(r, from, to) ==
  /\ hpc[r] = from
  /\ hpc' = [hpc EXCEPT ![r] = to]

CheckKey(r) ==
  /\ Step(r, "idle", IF status[KeyOf[r]] = "none" THEN "checked" ELSE "ended")
  /\ UNCHANGED <<payment, command, dead, work, mail, effect, history>>

\* Mutant: no unique constraint, only the check before the insert.
CreatePaymentAgain(r) ==
  /\ Step(r, "checked", "created")
  /\ status' = [status EXCEPT ![KeyOf[r]] = IF @ = "none" THEN "received" ELSE @]
  /\ UNCHANGED <<target, age, command, dead, work, mail, effect, history>>

\* idempotency_key is unique: of two requests that both saw no row, one fails here.
CreatePayment(r) ==
  /\ Step(r, "checked", IF status[KeyOf[r]] = "none" THEN "created" ELSE "ended")
  /\ status' = [status EXCEPT ![KeyOf[r]] = IF @ = "none" THEN "received" ELSE @]
  /\ UNCHANGED <<target, age, command, dead, work, mail, effect, history>>

\* An unknown reference: the payment is announced as unresolved and stays received.
PublishUnresolved(r) ==
  /\ target[KeyOf[r]] = "none"
  /\ Step(r, "created", "ended")
  /\ queue' = Put(queue, "unresolved", KeyOf[r])
  /\ UNCHANGED <<payment, command, dead, work, outbox, effect, history>>

PublishResolve(r) ==
  /\ target[KeyOf[r]] # "none"
  /\ Step(r, "created", "published")
  /\ command' = Incr(command, KeyOf[r])
  /\ UNCHANGED <<payment, dead, work, mail, effect, history>>

\* Only now, with the command already on its way, does the row become resolving.
SetResolving(r) ==
  /\ Step(r, "published", "ended")
  /\ UpdatePaymentStatus(KeyOf[r])
  /\ UNCHANGED <<command, dead, work, mail, effect, history>>

\* A call of the request fails, or the service dies: the rest is never done.
RequestFails(r) ==
  /\ hpc[r] \in {"checked", "created", "published"}
  /\ Fault
  /\ hpc' = [hpc EXCEPT ![r] = "ended"]
  /\ UNCHANGED <<payment, command, dead, work, mail, effect, redone, unannounced>>

-----------------------------------------------------------------------------
(* The consumers of the workers: one delivery at a time *)

At(w, k, pc) == wpc[w] = pc /\ task[w] = {k}

Goto(w, pc) ==
  /\ wpc' = [wpc EXCEPT ![w] = pc]
  /\ UNCHANGED task

Finish(w) ==
  /\ wpc'  = [wpc  EXCEPT ![w] = "idle"]
  /\ task' = [task EXCEPT ![w] = {}]

\* Only the investment worker claims the payment before it works on it.
Deliver(w, k) ==
  /\ wpc[w] = "idle"
  /\ target[k] = Service[w]
  /\ command[k] > 0
  /\ command' = Decr(command, k)
  /\ task' = [task EXCEPT ![w] = {k}]
  /\ wpc'  = [wpc  EXCEPT ![w] = IF Service[w] = "investment" THEN "delivered" ELSE "claimed"]
  /\ UNCHANGED <<payment, hpc, dead, mail, effect, history>>

Claim(w, k) ==
  /\ At(w, k, "delivered")
  /\ TryClaimPayment(k)
  /\ Goto(w, "claimed")
  /\ UNCHANGED <<hpc, command, dead, mail, effect, history>>

\* No row to claim: the delivery is acknowledged and gone.
ClaimRefused(w, k) ==
  /\ At(w, k, "delivered")
  /\ status[k] # "resolving"
  /\ Finish(w)
  /\ UNCHANGED <<payment, hpc, command, dead, mail, effect, history>>

\* HandlePaymentEvent commits the posting and the row of the outbox together.
Apply(w, k) ==
  /\ At(w, k, "claimed")
  /\ effect' = Incr(effect, k)
  /\ outbox' = Put(outbox, "resolved", k)
  /\ Goto(w, "handled")
  /\ UNCHANGED <<payment, hpc, command, dead, queue, history>>

\* Mutant: the refusal is recorded with the command of a resolved payment.
RefuseAsResolved(w, k) ==
  /\ At(w, k, "claimed")
  /\ outbox' = Put(outbox, "resolved", k)
  /\ Goto(w, "handled")
  /\ UNCHANGED <<payment, hpc, command, dead, queue, effect, history>>

\* A refusal that is no error: any of the investment worker's, which leaves a row in
\* the outbox; of the loan worker's only that of a repeated overpayment.
Refuse(w, k) ==
  /\ At(w, k, "claimed")
  /\ Service[w] = "loan" => effect[k] > 0
  /\ outbox' = Put(outbox, "unresolved", k)
  /\ Goto(w, "handled")
  /\ UNCHANGED <<payment, hpc, command, dead, queue, effect, history>>

\* Mutant: the posting has a transaction of its own and survives the rollback.
FailsAfterPosting(w, k) ==
  /\ At(w, k, "claimed")
  /\ effect' = Incr(effect, k)
  /\ Goto(w, "failed")
  /\ UNCHANGED <<payment, hpc, command, dead, mail, history>>

\* HandlePaymentEvent returns an error with nothing committed.
HandlingFails(w, k) ==
  /\ At(w, k, "claimed")
  /\ Goto(w, "failed")
  /\ UNCHANGED <<payment, hpc, command, dead, mail, effect, history>>

\* A refusal with its row in the outbox that is an error after all.  The investment worker
\* writes the row outside of the transaction, whose commit fails; of the loan worker the
\* commit goes through while the connection is lost.
RefuseThenFail(w, k) ==
  /\ At(w, k, "claimed")
  /\ \/ Service[w] = "investment" /\ UNCHANGED faults
     \/ Service[w] = "loan" /\ effect[k] > 0 /\ Fault
  /\ outbox' = Put(outbox, "unresolved", k)
  /\ Goto(w, "failed")
  /\ UNCHANGED <<payment, hpc, command, dead, queue, effect, redone, unannounced>>

\* Mutant: the handled delivery is put back on its queue.
AckRequeues(w, k) ==
  /\ At(w, k, "handled")
  /\ Finish(w)
  /\ command' = Incr(command, k)
  /\ UNCHANGED <<payment, hpc, dead, mail, effect, history>>

Ack(w, k) ==
  /\ At(w, k, "handled")
  /\ Finish(w)
  /\ UNCHANGED <<payment, hpc, command, dead, mail, effect, history>>

\* Mutant: the investment worker acknowledges the delivery after an error.
FailInvestmentAcks(w, k) ==
  /\ At(w, k, "failed")
  /\ Service[w] = "investment"
  /\ TryFailPayment(k)
  /\ Finish(w)
  /\ UNCHANGED <<hpc, command, dead, mail, effect, history>>

\* After an error the investment worker tries to fail the payment, which only a claim
\* of 20 seconds ago allows, and sends the delivery to the dead letter queue.
FailInvestment(w, k) ==
  /\ At(w, k, "failed")
  /\ Service[w] = "investment"
  /\ TryFailPayment(k)
  /\ dead' = Incr(dead, k)
  /\ Finish(w)
  /\ UNCHANGED <<hpc, command, mail, effect, history>>

\* Mutant: the loan worker dead-letters the delivery and tells nobody.
FailLoanSilently(w, k) ==
  /\ At(w, k, "failed")
  /\ Service[w] = "loan"
  /\ dead' = Incr(dead, k)
  /\ Finish(w)
  /\ UNCHANGED <<payment, hpc, command, mail, effect, history>>

\* The loan worker announces it as unresolved, and sends it there too.
FailLoan(w, k) ==
  /\ At(w, k, "failed")
  /\ Service[w] = "loan"
  /\ queue' = Put(queue, "unresolved", k)
  /\ dead' = Incr(dead, k)
  /\ Finish(w)
  /\ UNCHANGED <<payment, hpc, command, outbox, effect, history>>

-----------------------------------------------------------------------------
(* The dispatchers and the consumers of the payments service *)

\* Mutant: a row is marked as published and was not sent.
DispatchLoses(o, k) ==
  /\ outbox[o][k] > 0
  /\ outbox' = Drop(outbox, o, k)
  /\ UNCHANGED <<payment, hpc, command, dead, work, queue, effect, history>>

Dispatch(o, k) ==
  /\ outbox[o][k] > 0
  /\ outbox' = Drop(outbox, o, k)
  /\ queue' = Put(queue, o, k)
  /\ UNCHANGED <<payment, hpc, command, dead, work, effect, history>>

\* A message whose row is not resolving goes back to its queue, again and again.
ConsumeResolved(k) ==
  /\ queue["resolved"][k] > 0
  /\ TryCompletePayment(k)
  /\ queue' = Drop(queue, "resolved", k)
  /\ UNCHANGED <<hpc, command, dead, work, outbox, effect, history>>

ConsumeUnresolved(k) ==
  /\ queue["unresolved"][k] > 0
  /\ TryUnresolvePayment(k)
  /\ queue' = Drop(queue, "unresolved", k)
  /\ UNCHANGED <<hpc, command, dead, work, outbox, effect, history>>

\* Twenty seconds have passed since a payment was claimed.
TimePasses ==
  /\ \E k \in Key :
       /\ age[k] = "young"
       /\ age' = [age EXCEPT ![k] = "old"]
  /\ UNCHANGED <<target, status, hpc, command, dead, work, mail, effect, history>>

-----------------------------------------------------------------------------
(* Faults *)

\* A worker dies and the broker delivers its message again.
Crash(w, k) ==
  /\ task[w] = {k}
  /\ Fault
  /\ Finish(w)
  /\ command' = Incr(command, k)
  /\ redone' = redone \cup {k}
  /\ UNCHANGED <<payment, hpc, dead, mail, effect, unannounced>>

\* The connection is lost in a commit that went through: an error for the worker.
CommitUnknown(w, k) ==
  /\ At(w, k, "claimed")
  /\ Fault
  /\ effect' = Incr(effect, k)
  /\ outbox' = Put(outbox, "resolved", k)
  /\ Goto(w, "failed")
  /\ redone' = redone \cup {k}
  /\ UNCHANGED <<payment, hpc, command, dead, queue, unannounced>>

\* The loan worker's publish fails; the delivery is dead-lettered all the same.
AnnouncementLost(w, k) ==
  /\ At(w, k, "failed")
  /\ Service[w] = "loan"
  /\ Fault
  /\ dead' = Incr(dead, k)
  /\ Finish(w)
  /\ unannounced' = unannounced \cup {k}
  /\ UNCHANGED <<payment, hpc, command, mail, effect, redone>>

\* The broker does not answer for as long as the dispatcher tries: the row is given up.
DispatchGivenUp(o, k) ==
  /\ outbox[o][k] > 0
  /\ Fault
  /\ outbox' = Drop(outbox, o, k)
  /\ unannounced' = unannounced \cup {k}
  /\ UNCHANGED <<payment, hpc, command, dead, work, queue, effect, redone>>

\* A dispatcher sends a row and dies before it marks the row as published.
DispatchAgain(o, k) ==
  /\ outbox[o][k] > 0
  /\ Fault
  /\ queue' = Put(queue, o, k)
  /\ UNCHANGED <<payment, hpc, command, dead, work, outbox, effect, redone, unannounced>>

-----------------------------------------------------------------------------

RequestStep(r) ==
  CheckKey(r) \/ CreatePayment(r) \/ PublishUnresolved(r) \/ PublishResolve(r) \/ SetResolving(r)

WorkerStep(w) ==
  \E k \in Key :
    \/ Deliver(w, k) \/ Claim(w, k) \/ ClaimRefused(w, k)
    \/ Apply(w, k) \/ Refuse(w, k) \/ HandlingFails(w, k) \/ RefuseThenFail(w, k)
    \/ Ack(w, k) \/ FailInvestment(w, k) \/ FailLoan(w, k)

Next ==
  \/ \E r \in Request : RequestStep(r) \/ RequestFails(r)
  \/ \E w \in Worker : WorkerStep(w)
  \/ \E o \in Outcomes, k \in Key :
       Dispatch(o, k) \/ DispatchAgain(o, k) \/ DispatchGivenUp(o, k)
  \/ \E k \in Key : ConsumeResolved(k) \/ ConsumeUnresolved(k)
  \/ \E w \in Worker, k \in Key : Crash(w, k) \/ CommitUnknown(w, k) \/ AnnouncementLost(w, k)
  \/ TimePasses

Spec == Init /\ [][Next]_vars

\* Services that run get on with what they have begun; no request need arrive.
Fairness ==
  /\ \A r \in Request : WF_vars(SetResolving(r))
  /\ \A w \in Worker : WF_vars(WorkerStep(w))
  /\ \A k \in Key, o \in Outcomes : WF_vars(Dispatch(o, k))
  /\ \A k \in Key : WF_vars(ConsumeResolved(k)) /\ WF_vars(ConsumeUnresolved(k))

FairSpec == Spec /\ Fairness

-----------------------------------------------------------------------------
(* Properties *)

Terminal == {"completed", "unresolved", "failed"}

TypeOK ==
  /\ target      \in Targets
  /\ status      \in [Key -> {"none", "received", "resolving"} \cup Terminal]
  /\ age         \in [Key -> {"null", "young", "old"}]
  /\ hpc         \in [Request -> {"idle", "checked", "created", "published", "ended"}]
  /\ command     \in [Key -> Nat]
  /\ dead        \in [Key -> Nat]
  /\ wpc         \in [Worker -> {"idle", "delivered", "claimed", "handled", "failed"}]
  /\ task        \in [Worker -> SUBSET Key]
  /\ outbox      \in [Outcomes -> [Key -> Nat]]
  /\ queue       \in [Outcomes -> [Key -> Nat]]
  /\ effect      \in [Key -> Nat]
  /\ faults      \in 0 .. MaxFaults
  /\ redone      \in SUBSET Key
  /\ unannounced \in SUBSET Key

\* A payment is reported completed only after its money was posted, however its
\* messages are delayed, repeated or overtaken.
CompletedMeansApplied ==
  \A k \in Key : status[k] = "completed" => effect[k] > 0

\* A payment reported unresolved or failed left nothing in the ledger, unless a
\* redelivery or a lost commit came between.
RefusedMeansNotApplied ==
  \A k \in Key \ redone : status[k] \in {"unresolved", "failed"} => effect[k] = 0

\* The money of a payment is posted once, unless it was redelivered or its commit lost.
AppliedOnce ==
  \A k \in Key \ redone : effect[k] <= 1

\* Two requests with one idempotency key put one command on its way: there is never
\* more than one copy waiting, in a worker's hands or in the dead letter queue.
Holding(k) == {w \in Worker : k \in task[w]}

OneCommand ==
  \A k \in Key : command[k] + dead[k] + Cardinality(Holding(k)) <= 1

\* The late unconditional UpdatePaymentStatus never reopens a payment, and nothing
\* else changes one that was closed.
TerminalIsFinal ==
  [][\A k \in Key : status[k] \in Terminal => status'[k] = status[k]]_vars

\* Nothing has happened to a payment: no command, no posting, no message.
Untouched(k) ==
  /\ command[k] = 0 /\ dead[k] = 0 /\ Holding(k) = {}
  /\ effect[k] = 0
  /\ \A o \in Outcomes : outbox[o][k] = 0 /\ queue[o][k] = 0

\* The unique key: one request at most works on a payment, its row is received, and
\* the payment is untouched until that request publishes.
RequestsAreAlone ==
  /\ \A r, s \in Request :
       hpc[r] \in {"created", "published"} /\ hpc[s] \in {"created", "published"} /\ KeyOf[r] = KeyOf[s]
         => r = s
  /\ \A r \in Request : hpc[r] \in {"created", "published"} => status[KeyOf[r]] = "received"
  /\ \A r \in Request : hpc[r] = "created" => Untouched(KeyOf[r])
  /\ \A k \in Key : status[k] = "none" => Untouched(k)

WorkersHoldOne ==
  \A w \in Worker : IF wpc[w] = "idle" THEN task[w] = {} ELSE \E k \in Key : task[w] = {k}

\* OneCommand, without counting the workers.
CopyIsAlone ==
  \A k \in Key :
    /\ command[k] + dead[k] <= 1
    /\ \A w \in Holding(k) : command[k] = 0 /\ dead[k] = 0 /\ \A v \in Holding(k) : v = w

\* A message that says resolved, and a completed row, stand for a posting.
ResolvedMeansApplied ==
  \A k \in Key :
    outbox["resolved"][k] > 0 \/ queue["resolved"][k] > 0 \/ status[k] = "completed"
      => effect[k] > 0

\* A delivery still to be worked on finds nothing posted, refused or closed.
Refused(k) ==
  \/ outbox["unresolved"][k] > 0
  \/ queue["unresolved"][k] > 0
  \/ status[k] \in {"unresolved", "failed"}

Waiting(k) ==
  \/ command[k] > 0
  \/ \E w \in Holding(k) : wpc[w] \in {"delivered", "claimed"}

OutcomeOf(k) ==
  /\ Waiting(k) => effect[k] = 0 /\ ~Refused(k)
  /\ (\E w \in Holding(k) : wpc[w] = "failed") => effect[k] = 0
  /\ Refused(k) => effect[k] = 0
  /\ effect[k] <= 1

OutcomeIsOne == \A k \in Key \ redone : OutcomeOf(k)

OnlyTargets ==
  \A k \in Key : target[k] = "none" => command[k] = 0 /\ Holding(k) = {}

Lifecycle == INSTANCE PaymentLifecycle WITH posted <- {k \in Key : effect[k] > 0}

\* The row and the posting follow the abstract life of a payment.
ImplementsLifecycle == Lifecycle!Spec

\* What carries a payment to its end.
Carried(k) ==
  \/ command[k] > 0
  \/ Holding(k) # {}
  \/ \E o \in Outcomes : outbox[o][k] > 0 \/ queue[o][k] > 0

\* A loan payment that is resolving is never forgotten: something will still close it,
\* unless a message of it was lost.
LoanIsCarried ==
  \A k \in Key \ unannounced :
    target[k] = "loan" /\ status[k] = "resolving" => Carried(k)

\* The same of an investment payment.
InvestmentIsCarried ==
  \A k \in Key : target[k] = "investment" /\ status[k] = "resolving" => Carried(k)

\* An investment payment that was claimed is not forgotten either, unless a message of it was
\* lost or an error within 20 seconds of the claim dead-lettered it.  So what is resolving
\* with nothing to carry it, was taken from its queue too early or failed too early.
ClaimedIsCarried ==
  \A k \in Key \ unannounced :
    target[k] = "investment" /\ status[k] = "resolving" /\ age[k] # "null" /\ dead[k] = 0
      => Carried(k)

\* What the claim's refusal says, that the payment is already processing, asks of the
\* claim: a payment claimed within the last 20 seconds is not claimed again.
ClaimIsExclusive ==
  [][\A w \in Worker, k \in Key : Claim(w, k) => age[k] # "young"]_vars

\* A loan payment that is resolving is closed in the end.
LoanSettles ==
  \A k \in Key : target[k] = "loan" /\ status[k] = "resolving"
                   ~> status[k] \in Terminal \/ k \in unannounced

=============================================================================
